---------------------------- MODULE Spec2Model ----------------------------
(***************************************************************************)
(* The script execution engine of zirv (src/src/script_runner): context   *)
(* construction (build_context), the engine loop (Script::run), single    *)
(* step execution (Command::execute, Command::invoke) and the fallback    *)
(* chain (FallbackCommand::invoke).                                        *)
(*                                                                         *)
(* Strings are sequences of one-character strings, so that str::replace,   *)
(* trim and strip_prefix are computed on text and not assumed.  An         *)
(* Option<T> is a sequence of length 0 (None) or 1 (Some).  A              *)
(* HashMap<String, String> is a function whose domain is its key set.      *)
(* Every flow (the main flow 0, and one spawned task per Concurrent group, *)
(* named by the group's index) advances from one await point to the next   *)
(* in one action.                                                          *)
(***************************************************************************)
EXTENDS Naturals, Sequences, FiniteSets, TLC

VARIABLES script, cli_params, env, os, base_name, files, confirm_fn, ui,
          pc, context, idx, handles, joined, result,
          task, ex, hist

vars == <<script, cli_params, env, os, base_name, files, confirm_fn, ui, pc,
          context, idx, handles, joined, result, task, ex, hist>>

inputs == <<script, cli_params, env, os, base_name, files, confirm_fn, ui>>

surroundings == <<cli_params, env, os, base_name, files, confirm_fn, ui>>

-----------------------------------------------------------------------------
(* Option<T> *)

None == <<>>

Some(v) == <<v>>

IsSome(o) == Len(o) = 1

IsNone(o) == Len(o) = 0

Unwrap(o) == o[1]

(* Result<T, E> *)

Ok(v) == [ok |-> TRUE, val |-> v]

Err(e) == [ok |-> FALSE, err |-> e]

-----------------------------------------------------------------------------
(* Text *)

Whitespace == {" ", "\n", "\t"}

RECURSIVE trim_start(_)
trim_start(s) ==
    IF Len(s) > 0 /\ s[1] \in Whitespace THEN trim_start(Tail(s)) ELSE s

RECURSIVE trim_end(_)
trim_end(s) ==
    IF Len(s) > 0 /\ s[Len(s)] \in Whitespace
    THEN trim_end(SubSeq(s, 1, Len(s) - 1))
    ELSE s

trim(s) == trim_end(trim_start(s))

starts_with(s, p) == Len(s) >= Len(p) /\ SubSeq(s, 1, Len(p)) = p

\* str::strip_prefix: the rest of s after p, or None.
strip_prefix(s, p) ==
    IF starts_with(s, p) THEN Some(SubSeq(s, Len(p) + 1, Len(s))) ELSE None

\* str::replace: every non-overlapping match of from, left to right.
RECURSIVE replace(_, _, _)
replace(s, from, to) ==
    IF Len(s) < Len(from) \/ Len(from) = 0 THEN s
    ELSE IF starts_with(s, from)
         THEN to \o replace(SubSeq(s, Len(from) + 1, Len(s)), from, to)
         ELSE <<s[1]>> \o replace(Tail(s), from, to)

\* format!("${{{key}}}")
placeholder(key) == <<"$", "{">> \o key \o <<"}">>


-----------------------------------------------------------------------------
(* HashMap<String, String> *)

EmptyMap == [k \in {} |-> <<>>]

\* An insertion that keeps the value of a key that is already there.
insert_if_absent(map, k, v) ==
    [x \in DOMAIN map \cup {k} |-> IF x \in DOMAIN map THEN map[x] ELSE v]

insert(map, k, v) ==
    [x \in DOMAIN map \cup {k} |-> IF x = k THEN v ELSE map[x]]

get(map, k) == IF k \in DOMAIN map THEN Some(map[k]) ELSE None

\* names.iter().cloned().zip(values).collect(): a later pair with the same
\* key replaces an earlier one.
RECURSIVE zip_collect(_, _, _)
zip_collect(names, values, map) ==
    IF Len(names) = 0 \/ Len(values) = 0 THEN map
    ELSE zip_collect(Tail(names), Tail(values),
                     insert(map, names[1], values[1]))

\* The strings a `for (key, value) in params` loop of replacements can
\* produce: the HashMap's iteration order is not fixed, so every order of
\* the keys left is a possible one.
RECURSIVE substitute_from(_, _, _)
substitute_from(command, params, left) ==
    IF left = {} THEN {command}
    ELSE UNION { UNION { substitute_from(replaced, params, left \ {k}) :
                           replaced \in { replace(command, placeholder(k),
                                                  params[k]) } } :
                 k \in left }

substitute_params(command, params) ==
    substitute_from(command, params, DOMAIN params)

-----------------------------------------------------------------------------
(* Paths and the file system the run sees *)

\* The names between the separators of a path, left to right.
RECURSIVE components(_, _)
components(s, cur) ==
    IF Len(s) = 0 THEN <<cur>>
    ELSE IF s[1] = "/" THEN <<cur>> \o components(Tail(s), <<>>)
         ELSE components(Tail(s), Append(cur, s[1]))

\* Path::is_absolute on a Unix-like system.
is_absolute(p) == Len(p) > 0 /\ p[1] = "/"

\* PathBuf::push: an absolute operand replaces the path, anything else is
\* appended after a separator.
push(path, p) ==
    IF is_absolute(p) \/ Len(path) = 0 THEN p
    ELSE IF path[Len(path)] = "/" THEN path \o p
         ELSE path \o <<"/">> \o p

\* The directories that exist during the run, each the sequence of its
\* names below the root: /, /w, /w/s and /t.
Dirs == { <<>>, << <<"w">> >>, << <<"w">>, <<"s">> >>, << <<"t">> >> }

\* std::env::current_dir(): the directory the runner was started in, /w.
current_dir == <<"/", "w">>

RECURSIVE render(_)
render(dir) ==
    IF Len(dir) = 0 THEN <<>> ELSE <<"/">> \o dir[1] \o render(Tail(dir))

\* Walks the names of a path from the directory `at`; every name walked
\* into has to exist.
RECURSIVE walk(_, _)
walk(names, at) ==
    IF Len(names) = 0 THEN Some(at)
    ELSE IF names[1] = <<>> \/ names[1] = <<".">> THEN walk(Tail(names), at)
    ELSE IF names[1] = <<".", ".">>
         THEN walk(Tail(names),
                   IF Len(at) = 0 THEN at ELSE SubSeq(at, 1, Len(at) - 1))
    ELSE IF Append(at, names[1]) \in Dirs
         THEN walk(Tail(names), Append(at, names[1]))
         ELSE None

\* Path::canonicalize: the absolute path of an existing directory, or an
\* error.  A relative path starts at the runner's own directory and the
\* empty path names nothing.
canonicalize(path) ==
    IF Len(path) = 0 THEN None
    ELSE LET start == IF is_absolute(path)
                      THEN <<>>
                      ELSE Tail(components(current_dir, <<>>))
             found == walk(components(path, <<>>), start)
         IN IF IsNone(found) THEN None
            ELSE IF Len(Unwrap(found)) = 0 THEN Some(<<"/">>)
                 ELSE Some(render(Unwrap(found)))

CWD == <<"c", "w", "d">>

\* The path a `cd <dir>` step asks for (command.rs:42-53).
cd_path(dir, ctx) ==
    LET base == IF CWD \in DOMAIN ctx THEN push(<<>>, ctx[CWD])
                ELSE push(<<>>, current_dir)
    IN IF is_absolute(dir) THEN dir ELSE push(base, dir)

-----------------------------------------------------------------------------
(* The script document (script.rs, command.rs, options.rs, secret.rs) *)

Command(command, capture, options) ==
    [command |-> command, capture |-> capture, options |-> options]

Options(proceed, delay, interactive, filter, fallback) ==
    [proceed_on_failure |-> proceed, delay_ms |-> delay,
     interactive |-> interactive, operating_system |-> filter,
     fallback |-> fallback]

FallbackCommand(command) == [command |-> command, options |-> None]

Secret(name, env_var) == [name |-> name, env_var |-> env_var]

Single(cmd) == [tag |-> "Command", cmd |-> cmd, cmds |-> <<>>]

Concurrent(cmds) == [tag |-> "Commands", cmd |-> None, cmds |-> cmds]

Script(name, params, secrets, commands) ==
    [name |-> name, params |-> params, secrets |-> secrets,
     commands |-> commands]

-----------------------------------------------------------------------------
(* Failures, as the values the engine formats into its error strings *)

\* "Expected {} parameters, got {}"
ParamCountError(expected, got) ==
    [kind |-> "ParamCount", expected |-> expected, got |-> got]

\* "Secret '{}' not found in env '{}'"
SecretError(name, env_var) ==
    [kind |-> "SecretNotFound", name |-> name, env_var |-> env_var]

\* "Failed to change directory to {dir}"
CdError(dir) == [kind |-> "ChangeDirectory", dir |-> dir]

\* "Command '{}' failed: {}"
CommandError(command, cause) ==
    [kind |-> "CommandFailed", command |-> command, cause |-> cause]

\* "Command '{}' failed and fallback '{}' also failed: {}"
FallbackError(command, fallback, cause) ==
    [kind |-> "FallbackFailed", command |-> command, fallback |-> fallback,
     cause |-> cause]

\* The failure of a step handed on as it is.
ScriptError_unprefixed(name, e) == e

\* "Error executing command in script '{}': {}"
ScriptError(name, e) == [kind |-> "Script", name |-> name, inner |-> e]

\* What Command::invoke and FallbackCommand::invoke return on a failure: the
\* "`{command}` failed" text after a non-zero exit, the io::Error of a
\* process that could not be spawned or waited for.
InvokeError(status, command) ==
    IF status = "nonzero" THEN [kind |-> "Exit", command |-> command]
    ELSE [kind |-> "Io", command |-> command]

-----------------------------------------------------------------------------
(* Pre-flight (mod.rs) *)

\* A count check that only notices missing values.
params_mismatch_too_few(names, values) == Len(names) > Len(values)

\* mod.rs:48
params_mismatch(names, values) == Len(names) # Len(values)

\* A lookup that reads a missing variable as the empty string.
env_var_or_default(name) ==
    IF name \in DOMAIN env THEN Some(env[name]) ELSE Some(<<>>)

\* std::env::var(name)
env_var(name) == IF name \in DOMAIN env THEN Some(env[name]) ELSE None

\* mod.rs:68-73: the secrets in declaration order; the first one whose
\* variable is not set ends the construction.
RECURSIVE bind_secrets(_, _)
bind_secrets(secret_defs, map) ==
    IF Len(secret_defs) = 0 THEN Ok(Some(map))
    ELSE LET sd == secret_defs[1]
             val == env_var(sd.env_var)
         IN IF IsNone(val) THEN Err(SecretError(sd.name, sd.env_var))
            ELSE bind_secrets(Tail(secret_defs),
                              insert(map, sd.name, Unwrap(val)))

build_context(scr, values) ==
    IF IsSome(scr.params) /\ params_mismatch(Unwrap(scr.params), values)
    THEN Err(ParamCountError(Len(Unwrap(scr.params)), Len(values)))
    ELSE LET params == IF IsSome(scr.params)
                       THEN zip_collect(Unwrap(scr.params), values, EmptyMap)
                       ELSE EmptyMap
         IN IF IsSome(scr.secrets)
            THEN bind_secrets(Unwrap(scr.secrets), params)
            ELSE Ok(Some(params))

-----------------------------------------------------------------------------
(* Flows: the main flow and the spawned tasks *)

Flows == 0..Len(script.commands)

Idle == [stage |-> "idle", self |-> None, fb |-> 0, err |-> None]

NoTask == [status |-> "none", ctx |-> EmptyMap, i |-> 0, res |-> None]

\* Every flow works on the caller's context.
Ctx_of_caller(f) == context

\* The context a flow works on: the caller's own for the main flow, the
\* clone taken at script.rs:39 for a task.
Ctx(f) == IF f = 0 THEN context ELSE task[f].ctx

Grp(f) == IF f = 0 THEN idx ELSE f

Mem(f) == IF f = 0 THEN 0 ELSE task[f].i

\* The command a flow is at: the clone of script.rs:29, or the next member
\* of the group cloned at script.rs:38.
Current(f) ==
    IF f = 0 THEN script.commands[idx].cmd
    ELSE script.commands[f].cmds[task[f].i]

\* A flow that starts a command while a call of execute is in progress.
Ready_overlapping(f) ==
    IF f = 0
    THEN /\ pc = "loop"
         /\ script.commands[idx].tag = "Command"
    ELSE task[f].status = "running"

\* A main flow that waits for every task it spawned before its next step.
Ready_after_units(f) ==
    /\ ex[f].stage = "idle"
    /\ IF f = 0
       THEN /\ pc = "loop"
            /\ script.commands[idx].tag = "Command"
            /\ \A g \in Flows : task[g].status # "running"
       ELSE task[f].status = "running"

\* A task that takes its steps only once the main flow has returned.
Ready_once_returned(f) ==
    /\ ex[f].stage = "idle"
    /\ IF f = 0
       THEN /\ pc = "loop"
            /\ script.commands[idx].tag = "Command"
       ELSE task[f].status = "running" /\ pc = "done"

\* The flow is between two calls of Command::execute, with a command to run.
Ready(f) ==
    /\ ex[f].stage = "idle"
    /\ IF f = 0
       THEN /\ pc = "loop"
            /\ script.commands[idx].tag = "Command"
       ELSE task[f].status = "running"

\* What the flows did, one record per effect, in each flow's own order.
Event(ev, f, fb, text, ok, cwd) ==
    [ev |-> ev, grp |-> Grp(f), mem |-> Mem(f), fb |-> fb, text |-> text,
     ok |-> ok, cwd |-> cwd]

\* Where the main loop stands after group i: at the next group, or at the
\* join loop of script.rs:51.
AfterGroup(i) == IF i >= Len(script.commands) THEN "join" ELSE "loop"

\* A context shared by every flow: what a task writes, the caller sees.
caller_context_shared(f, ctx2) == ctx2

\* The caller's context once flow f has left its own as ctx2: the main flow
\* works on the caller's map itself (script.rs:29), a task on the clone it
\* was given (script.rs:39-42).
caller_context(f, ctx2) == IF f = 0 THEN ctx2 ELSE context

\* A task that goes on to its next member whatever execute returned.
unit_after_going_on(unit, members, ctx2, res) ==
    IF unit.i >= members
    THEN [unit EXCEPT !.status = "finished", !.ctx = ctx2,
                      !.res = Some(Ok(None))]
    ELSE [unit EXCEPT !.i = @ + 1, !.ctx = ctx2]

\* script.rs:41-44: the task once execute has returned res for the member
\* it is at, of `members` in all: `?` ends the task with a failure as it
\* is, the loop takes the next member otherwise and the task ends with Ok
\* after the last one.
unit_after(unit, members, ctx2, res) ==
    IF ~res.ok
    THEN [unit EXCEPT !.status = "finished", !.ctx = ctx2,
                      !.res = Some(Err(res.err))]
    ELSE IF unit.i >= members
    THEN [unit EXCEPT !.status = "finished", !.ctx = ctx2,
                      !.res = Some(Ok(None))]
    ELSE [unit EXCEPT !.i = @ + 1, !.ctx = ctx2]

\* Command::execute returns res in flow f, leaving its context as ctx2: the
\* main flow goes on or returns the failure (script.rs:29-34), a task goes
\* on to its next member or ends with the failure (script.rs:41-44).
Leave(f, ctx2, evs, res) ==
    /\ hist' = [hist EXCEPT ![f] = @ \o evs \o
                   <<Event("return", f, 0, <<>>, res.ok, None)>>]
    /\ ex' = [ex EXCEPT ![f] = Idle]
    /\ context' = caller_context(f, ctx2)
    /\ IF f = 0
       THEN /\ IF res.ok
               THEN /\ idx' = idx + 1
                    /\ pc' = AfterGroup(idx)
                    /\ result' = result
               ELSE /\ idx' = idx
                    /\ pc' = "done"
                    /\ result' = Some(Err(ScriptError(script.name, res.err)))
            /\ task' = task
       ELSE /\ task' = [task EXCEPT ![f] =
                 unit_after(@, Len(script.commands[f].cmds), ctx2, res)]
            /\ UNCHANGED <<idx, pc, result>>
    /\ UNCHANGED <<inputs, handles, joined>>

\* An execute that is handed the script's own step: what it substitutes
\* into self.command is left in the script.
executed_in_place(scr, g, m, frame) ==
    IF IsNone(frame.self) THEN scr
    ELSE IF m = 0
         THEN [scr EXCEPT !.commands[g].cmd = Unwrap(frame.self)]
         ELSE [scr EXCEPT !.commands[g].cmds[m] = Unwrap(frame.self)]

\* script.rs:29, 38: execute is handed a clone of the step (`cmd.clone()`,
\* a member of `cmds.clone()`) and works on that: the script is as it was.
executed_on_clone(scr, g, m, frame) == scr

\* Command::execute stays at an await point of flow f.
Stay(f, ctx2, evs, frame) ==
    /\ hist' = [hist EXCEPT ![f] = @ \o evs]
    /\ ex' = [ex EXCEPT ![f] = frame]
    /\ context' = caller_context(f, ctx2)
    /\ task' = IF f = 0 THEN task ELSE [task EXCEPT ![f].ctx = ctx2]
    /\ script' = executed_on_clone(script, Grp(f), Mem(f), frame)
    /\ UNCHANGED <<surroundings, idx, pc, result, handles, joined>>

-----------------------------------------------------------------------------
(* Command::execute (command.rs) *)

\* operating_system.rs:5-12.  The paths and the shell modelled here are the
\* Unix ones, so the runs checked are those on linux and macos.
Platforms == {"linux", "windows", "macos"}

\* operating_system.rs:16-23, on a platform the program is built for.
current == os

\* A filter that matches every platform.
is_current_always(filter) == TRUE

\* operating_system.rs:25-27
is_current(filter) == filter = current

\* command.rs:28-34
filtered_out(self) ==
    /\ IsSome(self.options)
    /\ IsSome(Unwrap(self.options).operating_system)
    /\ ~is_current(Unwrap(Unwrap(self.options).operating_system))

\* command.rs:39-40: the directory of a `cd <dir>` command, if it is one.
cd_target(command) ==
    LET rest == strip_prefix(trim_start(command), <<"c", "d", " ">>)
    IN IF IsSome(rest) THEN Some(trim(Unwrap(rest))) ELSE None

\* A step whose delay is never read.
delay_of_ignored(self) == None

\* command.rs:88-92
delay_of(self) ==
    IF IsSome(self.options) THEN Unwrap(self.options).delay_ms ELSE None

\* command.rs:67-68
fallback_of(self) ==
    IF IsSome(self.options) /\ IsSome(Unwrap(self.options).fallback)
    THEN Unwrap(Unwrap(self.options).fallback)
    ELSE <<>>

\* command.rs:79
proceeds(self) ==
    IsSome(self.options) /\ Unwrap(self.options).proceed_on_failure

\* A failure that is never propagated.
failure_result_always_proceeds(self, e) == Ok(Some("proceeding"))

\* A failure that a fallback chain that ran through turns into a success.
failure_result_recovered(self, e) ==
    IF proceeds(self) \/ Len(fallback_of(self)) > 0
    THEN Ok(Some("proceeding"))
    ELSE Err(CommandError(self.command, e))

\* command.rs:79-85: the value execute returns once the fallback loop is
\* through.
failure_result(self, e) ==
    IF proceeds(self) THEN Ok(Some("proceeding"))
    ELSE Err(CommandError(self.command, e))

\* fallback_command.rs:16-26: the text handed to the shell.
fallback_text(cmd, ctx) == cmd.command

\* command.rs:70-75: what a failed fallback step does to the loop.
fallback_failed(self, cmd, e) ==
    Some(Err(FallbackError(self.command, cmd.command, e)))

SpawnFallback(f, self, k) ==
    Event("spawn", f, k, fallback_text(fallback_of(self)[k], Ctx(f)), TRUE,
          None)

\* command.rs:27-64, up to the first await: the OS filter, the
\* substitution, a directory change, or the spawn of the step's process.
ExecuteStart(f) ==
    /\ Ready(f)
    /\ LET self == Current(f)
           ctx == Ctx(f)
       IN IF filtered_out(self)
          THEN Leave(f, ctx, <<Event("skip", f, 0, self.command, TRUE, None)>>,
                     Ok(Some("skipped")))
          ELSE \E command \in substitute_params(self.command, ctx) :
               \E dir \in { cd_target(command) } :
               \E path \in { IF IsSome(dir) THEN cd_path(Unwrap(dir), ctx)
                              ELSE <<>> } :
               \E p \in { IF IsSome(dir) THEN canonicalize(path) ELSE None } :
                    IF IsSome(dir) /\ IsSome(p)
                    THEN Leave(f, insert(ctx, CWD, Unwrap(p)),
                               <<Event("cd", f, 0, command, TRUE,
                                       Some(Unwrap(p)))>>,
                               Ok(None))
                    ELSE IF IsSome(dir)
                    THEN Leave(f, ctx,
                               <<Event("cd", f, 0, command, FALSE, None)>>,
                               Err(CdError(Unwrap(dir))))
                    ELSE Stay(f, ctx,
                              <<Event("spawn", f, 0, command, TRUE,
                                      get(ctx, CWD))>>,
                              [stage |-> "invoke",
                               self |-> Some([self EXCEPT !.command = command]),
                               fb |-> 0, err |-> None])

\* What a child process can do: exit with status 0 and some output, exit
\* with another status, or fail to be spawned or waited for.
Statuses == {"success", "nonzero", "io_error"}

Stdouts == { <<"h", "\n">>, <<" ", "$", "{", "a", "}">> }

\* command.rs:132, 143: what the engine holds of the standard output of the
\* step's process once it has exited: out.stdout under a capture, nothing
\* otherwise (status() leaves the output to the terminal).
collected(self, status, stdout) ==
    IF IsSome(self.capture) /\ status = "success" THEN stdout ELSE <<>>

\* A capture that leaves nothing in the context but itself.
captured_alone(self, ctx, stdout) ==
    IF IsSome(self.capture)
    THEN insert(EmptyMap, Unwrap(self.capture), trim(stdout))
    ELSE ctx

\* command.rs:131-150: the context after the step's process has exited
\* with status 0.
captured(self, ctx, stdout) ==
    IF IsSome(self.capture)
    THEN insert(ctx, Unwrap(self.capture), trim(stdout))
    ELSE ctx

\* An invoke that stores what it collected whatever the exit status.
invoked_storing_anyway(self, ctx, status, stdout) == captured(self, ctx, stdout)

\* command.rs:131-150: the context invoke leaves: the capture is stored
\* after the test of the exit status, so a failure leaves the context as it
\* was.
invoked(self, ctx, status, stdout) ==
    IF status = "success" THEN captured(self, ctx, stdout) ELSE ctx

\* command.rs:64-94, from the end of the step's process to the next await.
InvokeDone(f) ==
    /\ ex[f].stage = "invoke"
    /\ \E status \in Statuses, stdout \in Stdouts :
         LET self == Unwrap(ex[f].self)
             ctx == Ctx(f)
             e == InvokeError(status, self.command)
             done == Event("exit", f, 0, collected(self, status, stdout),
                           status = "success", None)
         IN IF status = "success"
            THEN IF IsSome(delay_of(self))
                 THEN Stay(f, invoked(self, ctx, status, stdout),
                           <<done, Event("sleep", f, 0, <<>>, TRUE, None)>>,
                           [ex[f] EXCEPT !.stage = "sleep"])
                 ELSE Leave(f, invoked(self, ctx, status, stdout), <<done>>,
                            Ok(None))
            ELSE /\ stdout = <<"h", "\n">>
                 /\ IF Len(fallback_of(self)) > 0
                    THEN Stay(f, invoked(self, ctx, status, stdout),
                              <<done, SpawnFallback(f, self, 1)>>,
                              [ex[f] EXCEPT !.stage = "fallback", !.fb = 1,
                                            !.err = Some(e)])
                    ELSE Leave(f, invoked(self, ctx, status, stdout),
                               <<done>>, failure_result(self, e))

\* A chain after which the step's own command is handed to a process again.
after_chain_retried(f, self) ==
    <<Event("spawn", f, 0, self.command, TRUE, get(Ctx(f), CWD))>>

\* command.rs:76-85: what execute launches once the fallback loop is
\* through: nothing, it goes on to its return.
after_chain(f, self) == <<>>

\* command.rs:69-86, from the end of a fallback step's process to the next
\* await.
FallbackDone(f) ==
    /\ ex[f].stage = "fallback"
    /\ \E status \in Statuses :
         LET self == Unwrap(ex[f].self)
             k == ex[f].fb
             cmd == fallback_of(self)[k]
             ctx == Ctx(f)
             e == InvokeError(status, cmd.command)
             done == Event("exit", f, k, cmd.command, status = "success", None)
             stop == IF status = "success" THEN None
                     ELSE fallback_failed(self, cmd, e)
         IN IF IsSome(stop)
            THEN Leave(f, ctx, <<done>>, Unwrap(stop))
            ELSE IF k < Len(fallback_of(self))
            THEN Stay(f, ctx, <<done, SpawnFallback(f, self, k + 1)>>,
                      [ex[f] EXCEPT !.fb = k + 1])
            ELSE Leave(f, ctx, <<done>> \o after_chain(f, self),
                       failure_result(self, Unwrap(ex[f].err)))

\* command.rs:90: the pause is over.
SleepDone(f) ==
    /\ ex[f].stage = "sleep"
    /\ Leave(f, Ctx(f), <<Event("wake", f, 0, <<>>, TRUE, None)>>, Ok(None))

-----------------------------------------------------------------------------
(* Script::run (script.rs) and script_runner::execute (mod.rs) *)

\* mod.rs:30: the context is built, or execute returns the failure.
BuildContext ==
    /\ pc = "build"
    /\ LET built == build_context(script, cli_params)
       IN IF built.ok
          THEN /\ context' = Unwrap(built.val)
               /\ pc' = AfterGroup(0)
               /\ result' = result
          ELSE /\ context' = context
               /\ pc' = "done"
               /\ result' = Some(Err(built.err))
    /\ UNCHANGED <<inputs, idx, handles, joined, task, ex, hist>>

\* script.rs:36-46: the group and the context are cloned and handed to a
\* new task; the loop goes on.
Dispatch ==
    /\ pc = "loop"
    /\ ex[0].stage = "idle"
    /\ script.commands[idx].tag = "Commands"
    /\ LET cmds == script.commands[idx].cmds
       IN task' = [task EXCEPT ![idx] =
                     IF Len(cmds) = 0
                     THEN [status |-> "finished", ctx |-> context, i |-> 1,
                           res |-> Some(Ok(None))]
                     ELSE [status |-> "running", ctx |-> context, i |-> 1,
                           res |-> None]]
    /\ handles' = Append(handles, idx)
    /\ hist' = [hist EXCEPT ![0] =
                  Append(@, Event("dispatch", 0, 0, <<>>, TRUE, None))]
    /\ idx' = idx + 1
    /\ pc' = AfterGroup(idx)
    /\ UNCHANGED <<inputs, context, joined, result, ex>>

\* A join that drops the failure of a task.
join_result_swallowed(res) == Some(Ok(None))

\* script.rs:52: the failure of a joined task is run's own result, as it is.
join_result(res) == Some(Err(res.err))

\* script.rs:51-53: the next handle, in dispatch order, is awaited; a task
\* that ended with a failure ends run with it.
Join ==
    /\ pc = "join"
    /\ joined < Len(handles)
    /\ task[handles[joined + 1]].status = "finished"
    /\ LET res == Unwrap(task[handles[joined + 1]].res)
       IN IF res.ok
          THEN /\ joined' = joined + 1
               /\ UNCHANGED <<pc, result>>
          ELSE /\ joined' = joined
               /\ pc' = "done"
               /\ result' = join_result(res)
    /\ UNCHANGED <<inputs, context, idx, handles, task, ex, hist>>

\* script.rs:55 and mod.rs:37
Finish ==
    /\ pc = "join"
    /\ joined = Len(handles)
    /\ pc' = "done"
    /\ result' = Some(Ok(None))
    /\ UNCHANGED <<inputs, context, idx, handles, joined, task, ex, hist>>

\* ui.rs:99-101: the caller gets run's result while tasks are still running.
\* Their handles were dropped with `handles` (script.rs:30, 52), which leaves
\* them detached; when the caller returns in its turn the runtime is dropped
\* and every task still running is dropped at the await it is suspended at.
\* In the terminal UI (ui.rs:113-115) the runtime stays and the tasks go on.
Shutdown ==
    /\ pc = "done"
    /\ \E f \in Flows : task[f].status = "running"
    /\ task' = [f \in Flows |->
                 IF task[f].status = "running"
                 THEN [task[f] EXCEPT !.status = "cancelled"]
                 ELSE task[f]]
    /\ ex' = [f \in Flows |->
               IF task[f].status = "running" THEN Idle ELSE ex[f]]
    /\ UNCHANGED <<inputs, pc, context, idx, handles, joined, result, hist>>

-----------------------------------------------------------------------------
(* The .zirv folders on disk (utils.rs, commands/init.rs) *)

\* A .zirv folder: whether it is there, the script files in it and what its
\* .shortcuts.yaml holds, if it has one.
Folder(exists, scripts, shortcuts) ==
    [exists |-> exists, scripts |-> scripts, shortcuts |-> shortcuts]

NoFolder == Folder(FALSE, {}, None)

\* The folder of the current directory and the one of the home directory.
Disk(local, home) == [local |-> local, home |-> home]

-----------------------------------------------------------------------------
(* The terminal UI (ui.rs) *)

\* ui.rs:44-57: the fields of App the log panel is drawn from, and
\* should_quit.  The title, the description, the active command, the start
\* time and the exit status are only shown.
App ==
    [logs |-> <<>>, scroll |-> 0, view_height |-> 0, auto_scroll |-> TRUE,
     should_quit |-> FALSE]

\* usize::saturating_sub, u16::saturating_sub
saturating_sub(a, b) == IF a > b THEN a - b ELSE 0

\* ui.rs:59-64
push_log(self, line, is_error) ==
    [self EXCEPT !.logs = Append(@, [content |-> line, is_error |-> is_error])]

\* ui.rs:66-71
scroll_up(self) ==
    IF self.scroll > 0
    THEN [self EXCEPT !.scroll = @ - 1, !.auto_scroll = FALSE]
    ELSE self

\* ui.rs:73-79
scroll_down(self) ==
    IF self.scroll < saturating_sub(Len(self.logs), 1)
    THEN [self EXCEPT !.scroll = (@ + 1) % 65536]
    ELSE [self EXCEPT !.auto_scroll = TRUE]

\* ui.rs:81-85
scroll_page_up(self) ==
    LET step == IF self.view_height > 1 THEN self.view_height ELSE 1
    IN [self EXCEPT !.scroll = saturating_sub(@, step),
                    !.auto_scroll = FALSE]

\* ui.rs:87-92
scroll_page_down(self) ==
    LET step == IF self.view_height > 1 THEN self.view_height ELSE 1
        max_scroll == saturating_sub(Len(self.logs), self.view_height)
        new_scroll == IF self.scroll + step < max_scroll
                      THEN self.scroll + step
                      ELSE max_scroll
    IN [self EXCEPT !.scroll = new_scroll % 65536]

\* ui.rs:171-195: what draw_ui leaves in the App when the log panel is
\* `height` rows high, borders included.
draw_ui(self, height) ==
    LET seen == [self EXCEPT !.view_height = saturating_sub(height, 2)]
    IN IF seen.auto_scroll
       THEN [seen EXCEPT !.scroll =
               saturating_sub(Len(seen.logs), seen.view_height) % 65536]
       ELSE seen

\* The engine called without the UI.
NoUi == [is_terminal |-> FALSE, stage |-> "none", app |-> App, ret |-> None]

-----------------------------------------------------------------------------
(* The runs checked *)

A == <<"a">>

S == <<"s">>

T == <<"t">>

O == <<"o">>

\* Fallback steps: `f ${a}` and `g`.
F1 == FallbackCommand(<<"f", " ">> \o placeholder(A))

F2 == FallbackCommand(<<"g">>)

\* The steps a script is made of: every policy of options.rs appears with
\* and without the features it interacts with.
Steps ==
    { Command(<<"e", " ">> \o placeholder(A), None, None),
      Command(<<"p">>, Some(O), None),
      Command(<<"e", " ">> \o placeholder(O), None,
              Some(Options(FALSE, None, FALSE, None, Some(<<F1, F2>>)))),
      Command(<<"e">>, None,
              Some(Options(TRUE, Some(1), FALSE, None, Some(<<F1, F2>>)))),
      Command(<<"e">>, None, Some(Options(TRUE, None, FALSE, None, None))),
      Command(<<"e">>, Some(O),
              Some(Options(FALSE, Some(1), TRUE, None, None))),
      Command(<<"e", " ">> \o placeholder(A), Some(O),
              Some(Options(FALSE, Some(1), FALSE, Some("macos"),
                           Some(<<F2>>)))),
      Command(<<"c", "d", " ", "s">>, None, None),
      Command(<<" ", "c", "d", " ", "/", "n">>, None,
              Some(Options(TRUE, None, FALSE, None, Some(<<F2>>)))) }

\* The Concurrent groups: an empty one, one that changes directory and
\* captures, and one whose
\* first member is allowed to fail.
Units ==
    { <<>>,
      << Command(<<"p">>, Some(O), None),
         Command(<<"c", "d", " ", "s">>, None, None) >>,
      << Command(<<"e", " ">> \o placeholder(A), None,
                 Some(Options(TRUE, Some(1), FALSE, None, None))),
         Command(<<"e", " ">> \o placeholder(O), None, None) >> }

MaxGroups == 2

SeqsUpTo(set, n) == UNION { [1..k -> set] : k \in 0..n }

Groups == { Single(c) : c \in Steps } \cup { Concurrent(m) : m \in Units }

\* The declarations of a script, the CLI values and the environment it is
\* run with.
Case(params, secrets, values, environment) ==
    [params |-> params, secrets |-> secrets, values |-> values,
     environment |-> environment]

EnvOf(names) == [n \in names |-> <<"x">> \o n]

SecretS == Secret(S, <<"S">>)

SecretT == Secret(T, <<"T">>)

Cases ==
    { Case(None, None, vs, EnvOf({})) : vs \in { <<>>, << <<"v">> >> } } \cup
    { Case(Some(<<A>>), Some(<<SecretS>>), vs, EnvOf(e)) :
          vs \in { <<>>, << <<"v">> >>, << <<"v">>, <<"w">> >> },
          e \in { {}, {<<"S">>} } } \cup
    { Case(Some(<<A, S>>), Some(<<SecretS, SecretT>>),
           << placeholder(T), <<"w">> >>, EnvOf(e)) :
          e \in SUBSET {<<"S">>, <<"T">>} }

Init ==
    /\ \E c \in Cases, commands \in SeqsUpTo(Groups, MaxGroups) :
         /\ script = Script(<<"n">>, c.params, c.secrets, commands)
         /\ cli_params = c.values
         /\ env = c.environment
    /\ os \in Platforms \ {"windows"}
    /\ base_name = <<"n">>
    /\ ui = NoUi
    /\ files = Disk(NoFolder, NoFolder)
    /\ confirm_fn = Ok(FALSE)
    /\ pc = "build"
    /\ context = EmptyMap
    /\ idx = 1
    /\ handles = <<>>
    /\ joined = 0
    /\ result = None
    /\ task = [f \in 0..Len(script.commands) |-> NoTask]
    /\ ex = [f \in 0..Len(script.commands) |-> Idle]
    /\ hist = [f \in 0..Len(script.commands) |-> <<>>]

Next ==
    \/ BuildContext
    \/ Dispatch
    \/ Join
    \/ Finish
    \/ Shutdown
    \/ \E f \in Flows : ExecuteStart(f)
    \/ \E f \in Flows : InvokeDone(f)
    \/ \E f \in Flows : FallbackDone(f)
    \/ \E f \in Flows : SleepDone(f)

Spec == Init /\ [][Next]_vars

\* One step of flow f: of Command::execute, and in the main flow of execute
\* and Script::run as well.
FlowStep(f) ==
    /\ f \in Flows
    /\ \/ ExecuteStart(f)
       \/ InvokeDone(f)
       \/ FallbackDone(f)
       \/ SleepDone(f)
       \/ f = 0 /\ (BuildContext \/ Dispatch \/ Join \/ Finish)

\* The tokio runtime polls every task that can go on, the main flow and the
\* spawned ones (script.rs:40), and every child process exits, every sleep
\* ends: a flow that can take a step takes one.
FairSpec == Spec /\ \A f \in 0..MaxGroups : WF_vars(FlowStep(f))

-----------------------------------------------------------------------------
(* Reading the history *)

\* The step at member m of group g (m = 0: the group is a Single step).
StepAt(g, m) ==
    IF m = 0 THEN script.commands[g].cmd ELSE script.commands[g].cmds[m]

\* The flow a step runs in: a Single step in the main flow, a member in
\* its group's task.
FlowOf(g, m) == IF m = 0 THEN 0 ELSE g

\* The places of the script's steps.
Places ==
    { <<g, 0>> : g \in { i \in 1..Len(script.commands) :
                           script.commands[i].tag = "Command" } } \cup
    UNION { { <<g, m>> : m \in 1..Len(script.commands[g].cmds) } :
              g \in 1..Len(script.commands) }

SingleGroups ==
    { g \in 1..Len(script.commands) : script.commands[g].tag = "Command" }

\* What the flow of step (g, m) recorded for that step, in order.
EventsOf(g, m) ==
    SelectSeq(hist[FlowOf(g, m)], LAMBDA e : e.grp = g /\ e.mem = m)

Has(events, ev, fb) ==
    \E i \in DOMAIN events : events[i].ev = ev /\ events[i].fb = fb

\* The step's own command failed: its process did not exit with status 0,
\* or its directory could not be resolved.
ProcessFailed(g, m) ==
    \E i \in DOMAIN EventsOf(g, m) :
        LET e == EventsOf(g, m)[i]
        IN e.ev = "exit" /\ e.fb = 0 /\ ~e.ok

CdFailed(g, m) ==
    \E i \in DOMAIN EventsOf(g, m) :
        LET e == EventsOf(g, m)[i] IN e.ev = "cd" /\ ~e.ok

StepFailed(g, m) == ProcessFailed(g, m) \/ CdFailed(g, m)

\* Command::execute has returned for the step, and with what.
Returned(g, m) == Has(EventsOf(g, m), "return", 0)

ReturnedOk(g, m) ==
    \E i \in DOMAIN EventsOf(g, m) :
        LET e == EventsOf(g, m)[i] IN e.ev = "return" /\ e.ok

ReturnedErr(g, m) ==
    \E i \in DOMAIN EventsOf(g, m) :
        LET e == EventsOf(g, m)[i] IN e.ev = "return" /\ ~e.ok

\* Nothing of the script has run: no event, no task, no frame, no context.
NothingRan ==
    /\ \A f \in Flows : hist[f] = <<>> /\ task[f] = NoTask /\ ex[f] = Idle
    /\ handles = <<>>
    /\ context = EmptyMap

\* No group after group g has been executed or dispatched.
NothingAfter(g) ==
    /\ \A i \in DOMAIN hist[0] : hist[0][i].grp <= g
    /\ \A h \in (g + 1)..Len(script.commands) :
         hist[h] = <<>> /\ task[h] = NoTask

Failed == pc = "done" /\ IsSome(result) /\ ~Unwrap(result).ok

Succeeded == pc = "done" /\ IsSome(result) /\ Unwrap(result).ok

-----------------------------------------------------------------------------
(* Pre-flight *)

CountMismatch ==
    IsSome(script.params) /\ Len(Unwrap(script.params)) # Len(cli_params)

\* C1: with declared parameters and a CLI list of another length, execute
\* returns the parameter-count failure and nothing of the script runs: no
\* event, no task, no context.
C1_CountMismatchFailsBeforeAnyStep ==
    CountMismatch =>
        /\ NothingRan
        /\ pc \in {"build", "done"}
        /\ pc = "done" =>
             result = Some(Err(ParamCountError(Len(Unwrap(script.params)),
                                               Len(cli_params))))

C1_Witness ==
    /\ CountMismatch
    /\ Failed
    /\ Len(cli_params) > Len(Unwrap(script.params))
    /\ Len(script.commands) > 0

\* The declared secrets whose environment variable is not set.
AbsentSecrets ==
    IF IsSome(script.secrets)
    THEN { i \in DOMAIN Unwrap(script.secrets) :
             Unwrap(script.secrets)[i].env_var \notin DOMAIN env }
    ELSE {}

FirstAbsent ==
    Unwrap(script.secrets)[CHOOSE i \in AbsentSecrets :
                              \A j \in AbsentSecrets : i <= j]

\* C2 as stated: whenever a declared secret's variable is absent, the run
\* fails before any step and the failure names an absent secret's
\* placeholder and variable.
C2_AbsentSecretIsNamed ==
    AbsentSecrets # {} =>
        /\ NothingRan
        /\ pc \in {"build", "done"}
        /\ pc = "done" =>
             /\ Failed
             /\ \E i \in AbsentSecrets :
                  Unwrap(result).err =
                      SecretError(Unwrap(script.secrets)[i].name,
                                  Unwrap(script.secrets)[i].env_var)

\* C2, amended: when the parameter count is right (or no parameter is
\* declared) and a declared secret's variable is absent, the run fails
\* before any step and the failure names the placeholder and the variable
\* of the first absent secret in declaration order; with a wrong parameter
\* count the run fails before any step too, with the count failure.
C2_AbsentSecretIsNamedAfterCountCheck ==
    AbsentSecrets # {} =>
        /\ NothingRan
        /\ pc \in {"build", "done"}
        /\ pc = "done" =>
             /\ Failed
             /\ Unwrap(result).err =
                  IF CountMismatch
                  THEN ParamCountError(Len(Unwrap(script.params)),
                                       Len(cli_params))
                  ELSE SecretError(FirstAbsent.name, FirstAbsent.env_var)

C2_Witness ==
    /\ Cardinality(AbsentSecrets) = 1
    /\ 1 \notin AbsentSecrets
    /\ ~CountMismatch
    /\ Failed
    /\ Unwrap(result).err.kind = "SecretNotFound"
    /\ Len(script.commands) > 0

-----------------------------------------------------------------------------
(* Failure of a Single step *)

\* C3: once a Single step without fallback and without proceed_on_failure
\* has failed, run has returned a failure and no later group has been
\* executed or dispatched.
C3_FailureHaltsTheScript ==
    \A g \in SingleGroups :
        (/\ StepFailed(g, 0)
         /\ ~proceeds(StepAt(g, 0))
         /\ Len(fallback_of(StepAt(g, 0))) = 0)
        => /\ Failed
           /\ idx = g
           /\ NothingAfter(g)

C3_Witness ==
    \E g \in SingleGroups :
        /\ ProcessFailed(g, 0)
        /\ IsSome(StepAt(g, 0).options)
        /\ ~proceeds(StepAt(g, 0))
        /\ Len(fallback_of(StepAt(g, 0))) = 0
        /\ g < Len(script.commands)
        /\ Failed

\* The fallback steps spawned for a step, by their place in its chain, in
\* the order they were spawned.
FallbackSpawns(g, m) ==
    LET spawned == SelectSeq(EventsOf(g, m),
                             LAMBDA e : e.ev = "spawn" /\ e.fb > 0)
    IN [i \in DOMAIN spawned |-> spawned[i].fb]

FallbackFailed(g, m) ==
    \E i \in DOMAIN EventsOf(g, m) :
        LET e == EventsOf(g, m)[i] IN e.ev = "exit" /\ e.fb > 0 /\ ~e.ok

WholeChain(g, m) == [i \in 1..Len(fallback_of(StepAt(g, m))) |-> i]

\* C4 as stated: a Single step whose process failed, with
\* proceed_on_failure true, is returned from as tolerated once its
\* fallback chain is through, and the main flow goes on to the next group.
C4_ToleratedFailureContinues ==
    \A g \in SingleGroups :
        (/\ ProcessFailed(g, 0)
         /\ proceeds(StepAt(g, 0))
         /\ Returned(g, 0))
        => /\ ReturnedOk(g, 0)
           /\ idx > g

PreflightPassed == build_context(script, cli_params).ok

\* C5 as stated: a run that got past pre-flight and in which every failed
\* step has proceed_on_failure true ends with Ok.
C5_ToleratedFailuresEndInSuccess ==
    (/\ pc = "done"
     /\ PreflightPassed
     /\ \A p \in Places : StepFailed(p[1], p[2]) => proceeds(StepAt(p[1], p[2])))
    => Succeeded

\* C6 as stated: when execute returns for a step whose process failed and
\* that has a fallback chain, every fallback step of the chain has been
\* spawned exactly once, in declared order.
C6_EveryFallbackRunsOnceInOrder ==
    \A p \in Places :
        (/\ ProcessFailed(p[1], p[2])
         /\ Len(fallback_of(StepAt(p[1], p[2]))) > 0
         /\ Returned(p[1], p[2]))
        => FallbackSpawns(p[1], p[2]) = WholeChain(p[1], p[2])

\* C7 as stated: a step whose process failed, with proceed_on_failure
\* true and a fallback step that failed too, is returned from as
\* tolerated.
C7_FallbackFailureIsNotPropagated ==
    \A p \in Places :
        (/\ ProcessFailed(p[1], p[2])
         /\ proceeds(StepAt(p[1], p[2]))
         /\ FallbackFailed(p[1], p[2])
         /\ Returned(p[1], p[2]))
        => ReturnedOk(p[1], p[2])

\* C8: a Single step that failed with proceed_on_failure false is
\* returned from with a failure, run returns a failure and no later group
\* runs; when that failure is the step's own, every fallback step of its
\* chain had been spawned, in order, and had exited with status 0.
C8_FallbackNeverTurnsFailureIntoSuccess ==
    \A g \in SingleGroups :
        (/\ StepFailed(g, 0)
         /\ ~proceeds(StepAt(g, 0))
         /\ Returned(g, 0))
        => /\ ReturnedErr(g, 0)
           /\ Failed
           /\ Unwrap(result).err.kind = "Script"
           /\ idx = g
           /\ NothingAfter(g)
           /\ Unwrap(result).err.inner.kind = "CommandFailed" =>
                /\ FallbackSpawns(g, 0) = WholeChain(g, 0)
                /\ ~FallbackFailed(g, 0)

C8_Witness ==
    \E g \in SingleGroups :
        /\ ProcessFailed(g, 0)
        /\ ~proceeds(StepAt(g, 0))
        /\ Len(fallback_of(StepAt(g, 0))) = 2
        /\ FallbackSpawns(g, 0) = <<1, 2>>
        /\ ~FallbackFailed(g, 0)
        /\ g < Len(script.commands)
        /\ Failed

\* C9 as stated: the text of a fallback step handed to the shell is its
\* template substituted against the context of its flow.
C9_FallbackCommandIsSubstituted ==
    \A f \in Flows :
        ex[f].stage = "fallback" =>
            LET self == Unwrap(ex[f].self)
                spawned == hist[f][Len(hist[f])]
            IN /\ spawned.ev = "spawn"
               /\ spawned.fb = ex[f].fb
               /\ spawned.text \in
                    substitute_params(fallback_of(self)[ex[f].fb].command,
                                      Ctx(f))

-----------------------------------------------------------------------------
(* The OS filter *)

\* The step names a platform and it is not the running one.
OtherPlatform(step) ==
    /\ IsSome(step.options)
    /\ IsSome(Unwrap(step.options).operating_system)
    /\ Unwrap(Unwrap(step.options).operating_system) # os

SkippedPlaces == { p \in Places : OtherPlatform(StepAt(p[1], p[2])) }

\* The step of a flow that is about to be skipped is concluded by that
\* flow's next action, which leaves every context as it is.
SkipKeepsContext ==
    \A f \in Flows :
        (Ready(f) /\ OtherPlatform(Current(f)) /\ hist'[f] # hist[f])
        => /\ context' = context
           /\ \A h \in Flows : task'[h].ctx = task[h].ctx
           /\ ex'[f] = Idle
           /\ Len(hist'[f]) = Len(hist[f]) + 2

-----------------------------------------------------------------------------
(* Concurrent groups *)

\* The groups whose task has been spawned.
Dispatched == { handles[i] : i \in DOMAIN handles }

\* The task of group g has run through: every member is concluded, or one
\* of them returned a failure.
Completed(g) == task[g].status = "finished"

\* The task of group g ended with the failure of one of its members.
UnitFailed(g) == Completed(g) /\ ~Unwrap(task[g].res).ok

\* C11 as stated: when run has returned, with Ok or with a failure, every
\* task it spawned has run through.
C11_UnitsCompleteBeforeRunReturns ==
    pc = "done" => \A g \in Dispatched : Completed(g)

\* A step of the task of group g: its history grows.
TaskStep(g) == g # 0 /\ hist'[g] # hist[g]

\* C12: a step of a task leaves the main context and the context of every
\* other task as they are, whatever it inserts into its own; the main
\* context changes only by pre-flight and by the conclusion of a Single
\* step of the main flow.
C12_TaskContextsAreIsolated ==
    [][/\ \A g \in Flows :
            TaskStep(g) =>
                /\ context' = context
                /\ \A h \in Flows \ {g} : task'[h].ctx = task[h].ctx
       /\ context' # context =>
            \/ pc = "build"
            \/ /\ pc = "loop"
               /\ script.commands[idx].tag = "Command"
               /\ hist'[0] # hist[0]]_vars

\* A task has changed directory and captured into its own context while
\* the main context, and a sibling's, show neither, up to the end of a run.
C12_Witness ==
    /\ pc = "done"
    /\ \E g \in Dispatched, h \in Dispatched :
         /\ g # h
         /\ Completed(g) /\ Completed(h)
         /\ CWD \in DOMAIN task[g].ctx
         /\ O \in DOMAIN task[g].ctx
         /\ CWD \notin DOMAIN task[h].ctx
         /\ O \notin DOMAIN task[h].ctx
         /\ CWD \notin DOMAIN context
         /\ O \notin DOMAIN context

ConcurrentGroups ==
    { g \in 1..Len(script.commands) : script.commands[g].tag = "Commands" }

\* The failure the task of group g ended with.
UnitError(g) == Unwrap(task[g].res).err

\* C13: once run has returned after pre-flight, (1) an Ok means that every
\* Single step was returned from with Ok and every Concurrent group was
\* dispatched and ran through without a failure; (2) if no Single step was
\* returned from with a failure, a failed unit means that run failed, and
\* the failure of run is the failure, as it is, of the failed unit that
\* was dispatched first: every unit dispatched before it ran through
\* without one.
C13_FirstFailedUnitIsReported ==
    (pc = "done" /\ PreflightPassed) =>
        /\ Succeeded =>
             /\ \A g \in SingleGroups : ReturnedOk(g, 0)
             /\ Dispatched = ConcurrentGroups
             /\ \A g \in ConcurrentGroups : Completed(g) /\ ~UnitFailed(g)
        /\ (\A g \in SingleGroups : ~ReturnedErr(g, 0)) =>
             /\ (\E g \in Dispatched : UnitFailed(g)) => Failed
             /\ Failed =>
                  /\ joined < Len(handles)
                  /\ UnitFailed(handles[joined + 1])
                  /\ Unwrap(result).err = UnitError(handles[joined + 1])
                  /\ \A j \in 1..Len(handles) :
                       /\ j <= joined =>
                            Completed(handles[j]) /\ ~UnitFailed(handles[j])
                       /\ j > joined + 1 => handles[j] > handles[joined + 1]

\* Two units have failed, each with its own failure, and run has returned
\* the failure of the one dispatched first.
C13_Witness ==
    /\ Failed
    /\ Len(handles) = 2
    /\ UnitFailed(handles[1])
    /\ UnitFailed(handles[2])
    /\ UnitError(handles[1]) # UnitError(handles[2])
    /\ Unwrap(result).err = UnitError(handles[1])

\* The task of group g was dropped with steps of its group left to run.
CutShort(g) == task[g].status = "cancelled"

\* C14 as stated: when no Single step was returned from with a failure, the
\* failure of a unit is reported only once the main flow has been through
\* every group, and no unit is cut short: each runs all of its steps up to
\* its own first failure.
C14_UnitFailureIsSurfacedOnlyAtJoin ==
    (/\ \A g \in SingleGroups : ~ReturnedErr(g, 0)
     /\ \E g \in Dispatched : UnitFailed(g))
    => /\ Failed => idx = Len(script.commands) + 1
       /\ \A h \in Dispatched : ~CutShort(h)

\* The main flow is in the loop of script.rs:25, between two groups.
BetweenGroups == pc = "loop" /\ ex[0].stage = "idle"

\* C15: between two groups the main flow can always take its next step,
\* the dispatch of a Concurrent group or the start of a Single step (whose
\* only guard is Ready), whatever the tasks it has spawned are doing; and
\* a dispatch moves the main flow on to the next group in the same step,
\* with nothing of the new unit run yet.
C15_DispatchNeverBlocksTheMainFlow ==
    /\ [](BetweenGroups =>
            IF script.commands[idx].tag = "Commands"
            THEN ENABLED Dispatch
            ELSE Ready(0))
    /\ [][handles' # handles =>
            /\ handles' = Append(handles, idx)
            /\ idx' = idx + 1
            /\ hist'[idx] = <<>>
            /\ \A g \in Flows \ {idx} : task'[g] = task[g]]_vars

\* A Single step has started and finished while a unit dispatched before
\* it has not run any of its steps.
C15_Witness ==
    \E g \in SingleGroups, h \in Dispatched :
        /\ h < g
        /\ ProcessFailed(g, 0) \/ Has(EventsOf(g, 0), "exit", 0)
        /\ Returned(g, 0)
        /\ task[h].status = "running"
        /\ hist[h] = <<>>
        /\ Len(script.commands[h].cmds) > 0

-----------------------------------------------------------------------------
(* Ordering *)

\* The event with which Command::execute starts on a step.
IsStart(e) == e.ev \in {"skip", "cd"} \/ (e.ev = "spawn" /\ e.fb = 0)

\* The event that concludes a place of a flow: the return of execute, or
\* the dispatch of a group by the main flow.
IsEnd(e) == e.ev \in {"return", "dispatch"}

\* The history h of flow f goes through the places of the flow one by one
\* in declared order: a place begins with its start (or is a dispatch),
\* nothing of a place follows its end, and the next place begins only
\* after the end, with Ok, of the place before it.
InDeclaredOrder(f, h) ==
    /\ Len(h) > 0 =>
         /\ IF f = 0 THEN h[1].grp = 1 ELSE h[1].grp = f /\ h[1].mem = 1
         /\ IsStart(h[1]) \/ h[1].ev = "dispatch"
    /\ \A i \in 1..(Len(h) - 1) :
         LET a == h[i]
             b == h[i + 1]
         IN IF IsEnd(a)
            THEN /\ a.ok
                 /\ IsStart(b) \/ b.ev = "dispatch"
                 /\ IF f = 0
                    THEN b.grp = a.grp + 1
                    ELSE b.grp = f /\ a.grp = f /\ b.mem = a.mem + 1
            ELSE /\ b.grp = a.grp
                 /\ b.mem = a.mem
                 /\ ~IsStart(b)
                 /\ b.ev # "dispatch"

\* C16: in the main flow the groups are taken in declared order, a Single
\* step starting only after the Single step before it has been returned
\* from; in the task of a Concurrent group the members start in declared
\* order, each only after the member before it has been returned from.
C16_StepsStartInDeclaredOrder ==
    \A f \in Flows :
        /\ InDeclaredOrder(f, hist[f])
        /\ \A i \in DOMAIN hist[f] :
             /\ hist[f][i].mem = 0 <=> f = 0
             /\ f = 0 =>
                  (hist[f][i].ev = "dispatch" <=>
                     script.commands[hist[f][i].grp].tag = "Commands")

\* A flow has been returned from its first step, which ran a process, and
\* has started on the step declared next.
C16_Witness ==
    \E f \in Flows :
        \E i \in DOMAIN hist[f] :
            /\ i > 2
            /\ hist[f][i - 2].ev = "exit"
            /\ hist[f][i - 1].ev = "return"
            /\ hist[f][i].ev = "spawn"
            /\ hist[f][i].fb = 0
            /\ f = 0 => script.commands[hist[f][i].grp].tag = "Command"

-----------------------------------------------------------------------------
(* Captures and substitution in a flow *)

\* The template with every placeholder of a key of ctx replaced by the
\* key's value, in one pass from left to right over the template: what is
\* put in is not looked at again.
RECURSIVE Substituted(_, _)
Substituted(template, ctx) ==
    IF Len(template) = 0 THEN <<>>
    ELSE IF \E k \in DOMAIN ctx : starts_with(template, placeholder(k))
    THEN LET k == CHOOSE x \in DOMAIN ctx :
                      starts_with(template, placeholder(x))
         IN ctx[k] \o
            Substituted(SubSeq(template, Len(placeholder(k)) + 1,
                               Len(template)), ctx)
    ELSE <<template[1]>> \o Substituted(Tail(template), ctx)

\* The template holds the placeholder of the key.
Mentions(template, key) ==
    \E i \in 1..Len(template) :
        starts_with(SubSeq(template, i, Len(template)), placeholder(key))

\* The names the steps of the script capture into.
CaptureNames ==
    { Unwrap(StepAt(p[1], p[2]).capture) :
        p \in { q \in Places : IsSome(StepAt(q[1], q[2]).capture) } }

\* The events a step of flow f adds to the flow's history.
NewEvents(f) == SubSeq(hist'[f], Len(hist[f]) + 1, Len(hist'[f]))

\* The process of a step with a capture name has exited with status 0.
IsCapture(e) ==
    /\ e.ev = "exit"
    /\ e.fb = 0
    /\ e.ok
    /\ IsSome(StepAt(e.grp, e.mem).capture)

\* C17 as stated: (1) when the process of a step with a capture name exits
\* with status 0, the context of its flow maps the name to the trimmed
\* output; (2) no other step of the flow changes what the name, or any
\* other name but cwd, is mapped to; (3) the command of a step the flow
\* starts on a template that holds the placeholder of a captured name is
\* the template with the placeholder replaced by the value the flow's
\* context maps the name to.
C17_CaptureIsBoundAndSubstituted ==
    [][\A f \in Flows :
         hist'[f] # hist[f] /\ Len(NewEvents(f)) > 0 =>
            LET e == NewEvents(f)[1]
                before == Ctx(f)
                after == Ctx(f)'
            IN /\ IsCapture(e) =>
                    after = insert(before,
                                   Unwrap(StepAt(e.grp, e.mem).capture),
                                   trim(e.text))
               /\ (~IsCapture(e) /\ e.ev # "dispatch") =>
                    /\ DOMAIN after \ {CWD} = DOMAIN before \ {CWD}
                    /\ \A k \in DOMAIN before \ {CWD} : after[k] = before[k]
               /\ (/\ e.ev = "cd" \/ (e.ev = "spawn" /\ e.fb = 0)
                   /\ \E o \in CaptureNames \cap DOMAIN before :
                        Mentions(StepAt(e.grp, e.mem).command, o)) =>
                    e.text = Substituted(StepAt(e.grp, e.mem).command,
                                         before)]_vars

-----------------------------------------------------------------------------
(* Command::substitute_params on its own *)

B == <<"b">>

Z == <<"z">>

\* What a template is put together from: plain text, the placeholders of
\* two names, the placeholder of a third name, and the two halves of a
\* placeholder.
Pieces ==
    { <<"x">>, placeholder(A), placeholder(B), placeholder(Z),
      <<"$">>, <<"{", "a", "}">> }

MaxPieces == 2

RECURSIVE concat(_)
concat(parts) == IF Len(parts) = 0 THEN <<>> ELSE parts[1] \o concat(Tail(parts))

Templates == { concat(parts) : parts \in SeqsUpTo(Pieces, MaxPieces) }

\* The values a name is bound to: plain text, nothing, and text that holds
\* the placeholder of a name.
Values == { <<"v">>, <<>>, placeholder(A), placeholder(B) }

Contexts == UNION { [keys -> Values] : keys \in SUBSET {A, B} }

\* A command is built on a template and a context is at hand.
SubstInit ==
    /\ \E template \in Templates :
         script = Script(<<"n">>, None, None,
                         <<Single(Command(template, None, None))>>)
    /\ context \in Contexts
    /\ cli_params = <<>>
    /\ env = EmptyMap
    /\ os \in Platforms \ {"windows"}
    /\ base_name = <<"n">>
    /\ ui = NoUi
    /\ files = Disk(NoFolder, NoFolder)
    /\ confirm_fn = Ok(FALSE)
    /\ pc = "template"
    /\ idx = 1
    /\ handles = <<>>
    /\ joined = 0
    /\ result = None
    /\ task = [f \in 0..1 |-> NoTask]
    /\ ex = [f \in 0..1 |-> Idle]
    /\ hist = [f \in 0..1 |-> <<>>]

\* command.rs:153-160: self.command becomes one of the strings the loop
\* over the map can leave.
Substitute ==
    /\ pc = "template"
    /\ \E command \in substitute_params(script.commands[1].cmd.command,
                                        context) :
         ex' = [ex EXCEPT ![0] =
                  [@ EXCEPT !.self =
                     Some([script.commands[1].cmd
                             EXCEPT !.command = command])]]
    /\ pc' = "substituted"
    /\ UNCHANGED <<inputs, context, idx, handles, joined, result, task, hist>>

SubstNext == Substitute

SubstSpec == SubstInit /\ [][SubstNext]_vars

\* The template substitute_params was called on, and what it left.
Template == script.commands[1].cmd.command

Output == Unwrap(ex[0].self).command

\* C18 as stated: what substitute_params leaves is the template with every
\* occurrence of the placeholder of every key of the context replaced by
\* the key's value and everything else, the placeholders of other names
\* included, as it was.
C18_EveryPlaceholderIsReplacedByItsValue ==
    pc = "substituted" => Output = Substituted(Template, context)

\* The template holds the placeholder of a key whose value holds the
\* placeholder of another key.
ValueHoldsPlaceholder ==
    \E k \in DOMAIN context, other \in DOMAIN context :
        /\ other # k
        /\ Mentions(Template, k)
        /\ Mentions(context[k], other)

\* C19 as stated: the value put in for a placeholder is not searched for
\* placeholders; where it holds the placeholder of another key, that
\* placeholder is in the output as it is in the value.
C19_InsertedTextIsNotScanned ==
    (pc = "substituted" /\ ValueHoldsPlaceholder)
    => Output = Substituted(Template, context)

-----------------------------------------------------------------------------
(* Directory changes *)

\* The directory a `cd <dir>` step of a flow with context ctx names: an
\* absolute dir as it is, a relative one below the context's cwd, or below
\* the runner's own directory when the context has none.
Resolved(dir, ctx) ==
    canonicalize(IF is_absolute(dir) THEN dir
                 ELSE push(IF CWD \in DOMAIN ctx THEN ctx[CWD]
                           ELSE current_dir, dir))

\* C20 as stated: (1) a directory-change step starts no process: nothing
\* but its return follows it in its step; (2) when its target resolves,
\* the context of its flow maps cwd to the resolved directory and nothing
\* else changes; when it does not, the context stays as it is and execute
\* returns a failure; (3) every process a flow spawns while its context
\* has a cwd is launched in that directory.
C20_DirectoryChangeSetsTheWorkingDirectory ==
    [][\A f \in Flows :
         hist'[f] # hist[f] =>
            LET new == NewEvents(f)
                before == Ctx(f)
                after == Ctx(f)'
            IN \A j \in DOMAIN new :
                 /\ new[j].ev = "cd" =>
                      LET dir == Unwrap(cd_target(new[j].text))
                          to == Resolved(dir, before)
                      IN /\ j = 1
                         /\ Len(new) = 2
                         /\ new[2].ev = "return"
                         /\ new[2].ok = new[1].ok
                         /\ new[1].ok = IsSome(to)
                         /\ IF IsSome(to)
                            THEN /\ after = insert(before, CWD, Unwrap(to))
                                 /\ new[1].cwd = to
                            ELSE after = before
                 /\ (new[j].ev = "spawn" /\ CWD \in DOMAIN before) =>
                      new[j].cwd = Some(before[CWD])]_vars

\* C21 as stated: a directory-change step whose target does not resolve is
\* handled as any failed step: when execute returns for it, every fallback
\* step of its chain has been spawned, in order, and with
\* proceed_on_failure true it is returned from as tolerated.
C21_UnresolvedDirectoryTakesTheFailurePath ==
    \A p \in Places :
        (CdFailed(p[1], p[2]) /\ Returned(p[1], p[2]))
        => /\ FallbackSpawns(p[1], p[2]) = WholeChain(p[1], p[2])
           /\ proceeds(StepAt(p[1], p[2])) => ReturnedOk(p[1], p[2])

\* C22 as stated: a step with delay_ms whose process failed and that is
\* returned from as tolerated has paused before execute returns.
C22_ToleratedFailureIsFollowedByTheDelay ==
    \A p \in Places :
        (/\ IsSome(delay_of(StepAt(p[1], p[2])))
         /\ ProcessFailed(p[1], p[2])
         /\ proceeds(StepAt(p[1], p[2]))
         /\ ReturnedOk(p[1], p[2]))
        => /\ Has(EventsOf(p[1], p[2]), "sleep", 0)
           /\ Has(EventsOf(p[1], p[2]), "wake", 0)

-----------------------------------------------------------------------------
(* Context construction *)

DeclaredParams == IF IsSome(script.params) THEN Unwrap(script.params) ELSE <<>>

DeclaredSecrets ==
    IF IsSome(script.secrets) THEN Unwrap(script.secrets) ELSE <<>>

SecretNames == { DeclaredSecrets[i].name : i \in DOMAIN DeclaredSecrets }

\* build_context has returned the context and no step has run yet.
JustBuilt == pc \in {"loop", "join"} /\ hist[0] = <<>>

\* C23: the context build_context returns has the declared parameter and
\* secret names as its keys; it maps every secret name to the value of the
\* secret's environment variable, and the i-th parameter name to the i-th
\* CLI value unless a secret has that name.
C23_ParametersThenSecretsAreBound ==
    JustBuilt =>
        /\ DOMAIN context =
             { DeclaredParams[i] : i \in DOMAIN DeclaredParams } \cup SecretNames
        /\ \A i \in DOMAIN DeclaredSecrets :
             context[DeclaredSecrets[i].name] = env[DeclaredSecrets[i].env_var]
        /\ \A i \in DOMAIN DeclaredParams :
             DeclaredParams[i] \notin SecretNames =>
                 context[DeclaredParams[i]] = cli_params[i]

\* A parameter and a secret of the same name were bound, to different
\* values, next to a parameter of its own name.
C23_Witness ==
    /\ JustBuilt
    /\ \E i \in DOMAIN DeclaredParams, j \in DOMAIN DeclaredSecrets :
         /\ DeclaredParams[i] = DeclaredSecrets[j].name
         /\ cli_params[i] # env[DeclaredSecrets[j].env_var]
         /\ context[DeclaredParams[i]] = env[DeclaredSecrets[j].env_var]
    /\ \E i \in DOMAIN DeclaredParams :
         /\ DeclaredParams[i] \notin SecretNames
         /\ context[DeclaredParams[i]] = cli_params[i]

-----------------------------------------------------------------------------
(* The keys of a context *)

\* What flow f has just done accounts for a new value of key k: the
\* process of a step that captures into k has exited with status 0, or k
\* is cwd and a directory change has resolved.
Rebinds(f, k) ==
    \E j \in DOMAIN NewEvents(f) :
        LET e == NewEvents(f)[j]
        IN \/ IsCapture(e) /\ Unwrap(StepAt(e.grp, e.mem).capture) = k
           \/ e.ev = "cd" /\ e.ok /\ k = CWD

\* From before to after, the context of flow f has lost no key, and a key
\* it had has another value only through a capture or a cwd update.
KeysKept(f, before, after) ==
    /\ DOMAIN before \subseteq DOMAIN after
    /\ \A k \in DOMAIN before : after[k] # before[k] => Rebinds(f, k)

\* C24: no step of a run, in the main flow or in a task, whatever its
\* outcome, takes a key out of a context, and the value of a key changes
\* only through a capture with that name or a cwd update.
C24_ContextKeysAreNeverDeleted ==
    [][/\ KeysKept(0, context, context')
       /\ \A g \in Flows \ {0} : KeysKept(g, task[g].ctx, task'[g].ctx)]_vars

\* A context built with a parameter has since taken a capture, and a
\* later step has failed.
C24_Witness ==
    /\ {A, O} \subseteq DOMAIN context
    /\ context[A] = <<"v">>
    /\ Failed

-----------------------------------------------------------------------------
(* The file-based runner (run.rs) *)

\* structs/script.rs:30-37 with the capture field run.rs:98 reads
CommandItem(command, capture, options) ==
    [command |-> command, capture |-> capture, options |-> options]

\* structs/script.rs:41-54 with the on_failure field run.rs:137 reads
CommandOptions(proceed, delay, filter, on_failure) ==
    [proceed_on_failure |-> proceed, delay_ms |-> delay,
     operating_system |-> filter, on_failure |-> on_failure]

\* structs/os.rs:14-20
operating_system(op) == op

\* run.rs:39-71
initial_context(scr, values) ==
    IF IsSome(scr.params) /\ Len(Unwrap(scr.params)) # Len(values)
    THEN Err(ParamCountError(Len(Unwrap(scr.params)), Len(values)))
    ELSE LET params == IF IsSome(scr.params)
                       THEN zip_collect(Unwrap(scr.params), values, EmptyMap)
                       ELSE EmptyMap
         IN IF IsSome(scr.secrets)
            THEN bind_secrets(Unwrap(scr.secrets), params)
            ELSE Ok(Some(params))

\* run.rs:98-111: what one invocation of a step returns.
invoke(cmd_str, step, status, stdout) ==
    IF status # "success" THEN Err(InvokeError(status, cmd_str))
    ELSE IF IsSome(step.capture)
         THEN Ok(Some(<<Unwrap(step.capture), trim(stdout)>>))
         ELSE Ok(None)

\* run.rs:148-150, 166-169: a captured pair goes into the context.
stored(ctx, res) ==
    IF res.ok /\ IsSome(res.val)
    THEN insert(ctx, Unwrap(res.val)[1], Unwrap(res.val)[2])
    ELSE ctx

\* The step the loop of run.rs:115 is at.
step_at == script.commands[idx]

\* run.rs:171-175: the optional delay, then the next step.
RunAfterStep ==
    IF IsSome(step_at.options.delay_ms)
    THEN /\ pc' = "delay"
         /\ idx' = idx
    ELSE /\ pc' = "step"
         /\ idx' = idx + 1

\* run.rs:43-48, 64-66 and 164, 157: run returns the error.
RunFails(e) ==
    /\ pc' = "done"
    /\ result' = Some(Err(e))
    /\ idx' = idx

\* run.rs:147-165: the error run returns after the retry, if it returns one:
\* the retry's own error, else the first attempt's, unless the step proceeds
\* on failure.
retry_verdict(step, first_err, res) ==
    IF step.options.proceed_on_failure THEN None
    ELSE IF ~res.ok THEN Some(res.err)
         ELSE Some(first_err)

\* run.rs:38-71
RunContext ==
    /\ pc = "context"
    /\ LET built == initial_context(script, cli_params)
       IN IF built.ok
          THEN /\ context' = Unwrap(built.val)
               /\ pc' = "step"
               /\ UNCHANGED result
          ELSE /\ pc' = "done"
               /\ result' = Some(built)
               /\ UNCHANGED context
    /\ UNCHANGED <<inputs, idx, handles, joined, task, ex, hist>>

\* run.rs:115-132: the OS filter, the substitution and the launch of the
\* first attempt.
RunStep ==
    /\ pc = "step"
    /\ idx <= Len(script.commands)
    /\ IF /\ IsSome(step_at.options.operating_system)
          /\ operating_system(Unwrap(step_at.options.operating_system)) # os
       THEN /\ idx' = idx + 1
            /\ hist' = [hist EXCEPT ![0] =
                          Append(@, Event("skip", 0, 0, <<>>, TRUE, None))]
            /\ UNCHANGED <<pc, ex>>
       ELSE \E cmd_str \in substitute_params(step_at.command, context) :
              /\ ex' = [ex EXCEPT ![0] =
                          [stage |-> "first", self |-> Some(cmd_str),
                           fb |-> 0, err |-> None]]
              /\ pc' = "first"
              /\ hist' = [hist EXCEPT ![0] =
                            Append(@, Event("first", 0, 0, cmd_str, TRUE,
                                            None))]
              /\ UNCHANGED idx
    /\ UNCHANGED <<inputs, context, handles, joined, result, task>>

\* run.rs:132-137, 163-169: the first attempt has ended.
RunFirst ==
    /\ pc = "first"
    /\ \E status \in Statuses, stdout \in Stdouts :
         LET res == invoke(Unwrap(ex[0].self), step_at, status, stdout)
         IN /\ hist' = [hist EXCEPT ![0] =
                          Append(@, Event("exit", 0, 0, Unwrap(ex[0].self),
                                          res.ok, None))]
            /\ context' = stored(context, res)
            /\ IF res.ok
               THEN /\ RunAfterStep
                    /\ UNCHANGED <<ex, result>>
               ELSE IF IsSome(step_at.options.on_failure)
                    THEN /\ ex' = [ex EXCEPT ![0] =
                                     [@ EXCEPT !.stage = "on_failure",
                                               !.fb = 1,
                                               !.err = Some(res.err)]]
                         /\ pc' = "on_failure"
                         /\ UNCHANGED <<idx, result>>
                    ELSE IF step_at.options.proceed_on_failure
                         THEN /\ RunAfterStep
                              /\ UNCHANGED <<ex, result>>
                         ELSE /\ RunFails(res.err)
                              /\ UNCHANGED ex
    /\ UNCHANGED <<inputs, handles, joined, task>>

\* run.rs:139-144: one command of the on_failure chain is substituted and
\* invoked, whatever it returns is dropped; after the last one the step's
\* command, as substituted for the first attempt, is launched again
\* (run.rs:147).
RunOnFailure ==
    /\ pc = "on_failure"
    /\ LET commands == Unwrap(step_at.options.on_failure)
       IN IF ex[0].fb <= Len(commands)
          THEN \E fb_cmd \in substitute_params(commands[ex[0].fb].command,
                                              context),
                  status \in Statuses :
                 /\ hist' = [hist EXCEPT ![0] =
                               Append(@, Event("on_failure", 0, ex[0].fb,
                                               fb_cmd, status = "success",
                                               None))]
                 /\ ex' = [ex EXCEPT ![0] = [@ EXCEPT !.fb = @ + 1]]
                 /\ UNCHANGED pc
          ELSE /\ hist' = [hist EXCEPT ![0] =
                             Append(@, Event("retry", 0, 0,
                                             Unwrap(ex[0].self), TRUE, None))]
               /\ ex' = [ex EXCEPT ![0] = [@ EXCEPT !.stage = "retry"]]
               /\ pc' = "retry"
    /\ UNCHANGED <<inputs, context, idx, handles, joined, result, task>>

\* run.rs:147-165: the retry has ended.
RunRetry ==
    /\ pc = "retry"
    /\ \E status \in Statuses, stdout \in Stdouts :
         LET res == invoke(Unwrap(ex[0].self), step_at, status, stdout)
             verdict == retry_verdict(step_at, Unwrap(ex[0].err), res)
         IN /\ hist' = [hist EXCEPT ![0] =
                          Append(@, Event("retried", 0, 0,
                                          Unwrap(ex[0].self), res.ok, None))]
            /\ context' = stored(context, res)
            /\ IF IsSome(verdict)
               THEN RunFails(Unwrap(verdict))
               ELSE /\ RunAfterStep
                    /\ UNCHANGED result
    /\ UNCHANGED <<inputs, handles, joined, task, ex>>

\* run.rs:172-174
RunDelay ==
    /\ pc = "delay"
    /\ pc' = "step"
    /\ idx' = idx + 1
    /\ hist' = [hist EXCEPT ![0] =
                  Append(@, Event("wake", 0, 0, <<>>, TRUE, None))]
    /\ UNCHANGED <<inputs, context, handles, joined, result, task, ex>>

\* run.rs:177
RunReturn ==
    /\ pc = "step"
    /\ idx > Len(script.commands)
    /\ pc' = "done"
    /\ result' = Some(Ok(None))
    /\ UNCHANGED <<inputs, context, idx, handles, joined, task, ex, hist>>

\* The on_failure chains and the steps of the scripts run.
Chain == << CommandItem(<<"f", " ">> \o placeholder(A), Some(O),
                        CommandOptions(FALSE, None, None, None)),
            CommandItem(<<"g">>, None,
                        CommandOptions(FALSE, None, None, None)) >>

Items ==
    { CommandItem(<<"e", " ">> \o placeholder(A), None,
                  CommandOptions(FALSE, None, None, None)),
      CommandItem(<<"p">>, Some(O),
                  CommandOptions(FALSE, Some(1), None, Some(Chain))),
      CommandItem(<<"e", " ">> \o placeholder(O), None,
                  CommandOptions(TRUE, Some(1), None, Some(Chain))),
      CommandItem(<<"e">>, None,
                  CommandOptions(TRUE, None, None, None)),
      CommandItem(<<"e">>, None,
                  CommandOptions(FALSE, None, None, Some(<<>>))),
      CommandItem(<<"w">>, None,
                  CommandOptions(FALSE, None, Some("macos"), None)) }

MaxItems == 2

\* The script has been read and parsed (run.rs:19-31).
RunInit ==
    /\ \E c \in Cases, commands \in SeqsUpTo(Items, MaxItems) :
         /\ script = Script(<<"n">>, c.params, c.secrets, commands)
         /\ cli_params = c.values
         /\ env = c.environment
    /\ os \in Platforms \ {"windows"}
    /\ base_name = <<"n">>
    /\ ui = NoUi
    /\ files = Disk(NoFolder, NoFolder)
    /\ confirm_fn = Ok(FALSE)
    /\ pc = "context"
    /\ context = EmptyMap
    /\ idx = 1
    /\ handles = <<>>
    /\ joined = 0
    /\ result = None
    /\ task = [f \in 0..0 |-> NoTask]
    /\ ex = [f \in 0..0 |-> Idle]
    /\ hist = [f \in 0..0 |-> <<>>]

RunNext ==
    \/ RunContext
    \/ RunStep
    \/ RunFirst
    \/ RunOnFailure
    \/ RunRetry
    \/ RunDelay
    \/ RunReturn

RunSpec == RunInit /\ [][RunNext]_vars

\* The retry of step g succeeded.
RetrySucceeded(g) ==
    \E i \in DOMAIN hist[0] :
        /\ hist[0][i].ev = "retried"
        /\ hist[0][i].grp = g
        /\ hist[0][i].ok

\* C26: a step whose first attempt fails and that has an on_failure chain
\* has the chain run and is then retried once; when the retry succeeds the
\* step counts as succeeded: its capture is in the context and the run goes
\* on to the following step, it does not return the first attempt's error.
C26_SuccessfulRetryCountsAsSuccess ==
    \A g \in DOMAIN script.commands :
        RetrySucceeded(g) =>
            /\ ~(pc = "done" /\ idx = g /\ ~Unwrap(result).ok)
            /\ IsSome(script.commands[g].capture) =>
                 Unwrap(script.commands[g].capture) \in DOMAIN context

-----------------------------------------------------------------------------
(* Script-file lookup (utils.rs find_script_file) *)

\* Extensions tried last first.
extensions_reversed ==
    << <<"t", "o", "m", "l">>, <<"j", "s", "o", "n">>, <<"y", "m", "l">>,
       <<"y", "a", "m", "l">> >>

\* utils.rs:29
extensions ==
    << <<"y", "a", "m", "l">>, <<"y", "m", "l">>, <<"j", "s", "o", "n">>,
       <<"t", "o", "m", "l">> >>

\* format!("{}.{}", stem, ext)
with_extension(stem, ext) == stem \o <<".">> \o ext

\* ".shortcuts.yaml"
shortcuts_file ==
    <<".", "s", "h", "o", "r", "t", "c", "u", "t", "s", ".", "y", "a", "m",
      "l">>

\* What a .shortcuts.yaml holds that serde_yaml cannot read as Shortcuts.
Unparsable == Err("serde_yaml")

\* base_dir.join(file).exists(): joining the empty string gives the folder
\* itself.
exists(folder, file) ==
    /\ folder.exists
    /\ \/ file = <<>>
       \/ file = shortcuts_file /\ IsSome(folder.shortcuts)
       \/ file \in folder.scripts

\* path.canonicalize(): the file as a path of the folder it was found in.
found(root, file) == Ok([root |-> root, file |-> file])

\* utils.rs:32-37, 49-54: the first extension with which the stem names a
\* file of the folder, from the i-th extension on.
RECURSIVE first_existing(_, _, _)
first_existing(folder, stem, i) ==
    IF i > Len(extensions) THEN None
    ELSE IF exists(folder, with_extension(stem, extensions[i]))
         THEN Some(with_extension(stem, extensions[i]))
         ELSE first_existing(folder, stem, i + 1)

\* utils.rs:40-56: the lookup through the folder's shortcuts file: a path,
\* the error of a file that cannot be read as Shortcuts, or nothing.
by_shortcut(root, folder, base) ==
    IF ~exists(folder, shortcuts_file) THEN None
    ELSE IF ~Unwrap(folder.shortcuts).ok
    THEN Some(Err([kind |-> "Shortcuts", root |-> root]))
    ELSE LET shortcuts == Unwrap(folder.shortcuts).val
         IN IF base \notin DOMAIN shortcuts THEN None
            ELSE LET mapped_file == shortcuts[base]
                     extended == first_existing(folder, mapped_file, 1)
                 IN IF exists(folder, mapped_file)
                    THEN Some(found(root, mapped_file))
                    ELSE IF IsSome(extended)
                         THEN Some(found(root, Unwrap(extended)))
                         ELSE None

\* utils.rs:32-56 and 62-85: the two steps in one folder.
search(root, folder, base) ==
    LET named == first_existing(folder, base, 1)
    IN IF IsSome(named) THEN Some(found(root, Unwrap(named)))
       ELSE by_shortcut(root, folder, base)

HOME == <<"H", "O", "M", "E">>

USERPROFILE == <<"U", "S", "E", "R", "P", "R", "O", "F", "I", "L", "E">>

\* utils.rs:59: env::var("HOME").or_else(|_| env::var("USERPROFILE"))
home_dir == IF IsSome(env_var(HOME)) THEN env_var(HOME) ELSE env_var(USERPROFILE)

\* The home directory the .zirv folder files.home is in.
UserHome == <<"/", "h">>

\* The .zirv folder of a directory.
zirv_of(dir) == IF dir = UserHome THEN files.home ELSE NoFolder

\* utils.rs:27-88
find_script_file(base) ==
    LET local == search("local", files.local, base)
    IN IF IsSome(local) THEN Unwrap(local)
       ELSE IF IsNone(home_dir) THEN Err([kind |-> "NoHome"])
       ELSE LET home == search("home", zirv_of(Unwrap(home_dir)), base)
            IN IF IsSome(home) THEN Unwrap(home)
               ELSE Err([kind |-> "NotFound", base |-> base])

\* The command name looked up and the file its shortcut names.
D == <<"d">>

M == <<"m">>

\* The script files a folder may hold.
ScriptFiles ==
    { with_extension(D, <<"y", "a", "m", "l">>),
      with_extension(D, <<"y", "m", "l">>),
      with_extension(D, <<"t", "o", "m", "l">>),
      M,
      with_extension(M, <<"y", "a", "m", "l">>),
      with_extension(M, <<"j", "s", "o", "n">>) }

MaxScripts == 2

\* What a .shortcuts.yaml may hold.
ShortcutFiles ==
    { None, Some(Unparsable), Some(Ok(insert(EmptyMap, D, M))) }

Folders ==
    {NoFolder} \cup
    { Folder(TRUE, scripts, shortcuts) :
          scripts \in { s \in SUBSET ScriptFiles : Cardinality(s) <= MaxScripts },
          shortcuts \in ShortcutFiles }

\* HOME and USERPROFILE as the program may find them.
HomeEnvs ==
    { EmptyMap,
      insert(EmptyMap, HOME, UserHome),
      insert(EmptyMap, USERPROFILE, UserHome),
      insert(insert(EmptyMap, HOME, <<"/", "x">>), USERPROFILE, UserHome) }

\* main.rs:90-102: a command name that is not a built-in one is looked up.
LookupInit ==
    /\ base_name = D
    /\ ui = NoUi
    /\ \E local \in Folders, home \in Folders : files = Disk(local, home)
    /\ confirm_fn = Ok(FALSE)
    /\ env \in HomeEnvs
    /\ script = Script(<<"n">>, None, None, <<>>)
    /\ cli_params = <<>>
    /\ os \in Platforms \ {"windows"}
    /\ pc = "lookup"
    /\ context = EmptyMap
    /\ idx = 1
    /\ handles = <<>>
    /\ joined = 0
    /\ result = None
    /\ task = [f \in 0..0 |-> NoTask]
    /\ ex = [f \in 0..0 |-> Idle]
    /\ hist = [f \in 0..0 |-> <<>>]

\* main.rs:102
Lookup ==
    /\ pc = "lookup"
    /\ result' = Some(find_script_file(base_name))
    /\ pc' = "looked_up"
    /\ UNCHANGED <<inputs, context, idx, handles, joined, task, ex, hist>>

LookupNext == Lookup

LookupSpec == LookupInit /\ [][LookupNext]_vars

\* The home .zirv folder, if the environment names a home directory.
HomeFolder ==
    IF HOME \in DOMAIN env
    THEN (IF env[HOME] = UserHome THEN files.home ELSE NoFolder)
    ELSE IF USERPROFILE \in DOMAIN env
         THEN (IF env[USERPROFILE] = UserHome THEN files.home ELSE NoFolder)
         ELSE NoFolder

\* The file names that stand for the command name in a folder, in the
\* order of their priority: the name with each extension, then the file the
\* folder's shortcuts map the name to, then that file with each extension.
Candidates(folder) ==
    LET suffixes == << <<".", "y", "a", "m", "l">>, <<".", "y", "m", "l">>,
                       <<".", "j", "s", "o", "n">>, <<".", "t", "o", "m", "l">> >>
        named == [i \in 1..4 |-> base_name \o suffixes[i]]
        mapping == IF folder.exists /\ IsSome(folder.shortcuts)
                      /\ Unwrap(folder.shortcuts).ok
                   THEN Unwrap(folder.shortcuts).val
                   ELSE EmptyMap
    IN IF base_name \in DOMAIN mapping
       THEN named \o <<mapping[base_name]>>
                  \o [i \in 1..4 |-> mapping[base_name] \o suffixes[i]]
       ELSE named

Present(folder, file) ==
    folder.exists /\ (file = <<>> \/ file \in folder.scripts)

\* Every candidate that is there, the local ones first.
Matches ==
    LET pick(root, folder) ==
            LET c == Candidates(folder)
                there == SelectSeq([i \in DOMAIN c |-> i],
                                   LAMBDA i : Present(folder, c[i]))
            IN [i \in DOMAIN there |-> [root |-> root, file |-> c[there[i]]]]
    IN pick("local", files.local) \o pick("home", HomeFolder)

LookedUp == pc = "looked_up"

\* C27 as stated: the lookup returns the first candidate that exists, local
\* ones before home ones, and an error only when no candidate exists.
C27_LookupReturnsTheFirstMatch ==
    LookedUp =>
        IF Matches = <<>> THEN ~Unwrap(result).ok
        ELSE Unwrap(result) = Ok(Matches[1])

\* A shortcuts file is in the way: one the lookup reads before it gets to
\* the first match cannot be read as Shortcuts.
UnreadableShortcuts(folder) ==
    /\ folder.exists
    /\ folder.shortcuts = Some(Unparsable)
    /\ \A i \in 1..4 : ~Present(folder, Candidates(folder)[i])

ShortcutsInTheWay ==
    \/ UnreadableShortcuts(files.local)
    \/ /\ UnreadableShortcuts(HomeFolder)
       /\ \A i \in DOMAIN Matches : Matches[i].root # "local"

\* C27: the lookup returns the first candidate that exists, local ones
\* before home ones; it returns an error only when no candidate exists or
\* when a shortcuts file it has to read cannot be read as Shortcuts.
C27_LookupReturnsTheFirstMatchOrAReadError ==
    LookedUp =>
        IF ShortcutsInTheWay \/ Matches = <<>> THEN ~Unwrap(result).ok
        ELSE Unwrap(result) = Ok(Matches[1])

\* A home match is passed over for a local one of lower rank.
C27_Witness ==
    /\ LookedUp
    /\ Len(Matches) >= 2
    /\ Matches[1].root = "local"
    /\ Matches[1].file = M
    /\ Matches[2].root = "home"
    /\ Matches[2].file # M
    /\ Unwrap(result) = Ok(Matches[1])

-----------------------------------------------------------------------------
(* zirv init (commands/init.rs init_zirv_with) *)

\* init.rs:6-8
DEFAULT_SHORTCUTS ==
    Ok(insert(EmptyMap, <<"e">>,
              <<"e", "x", "a", "m", "p", "l", "e", ".", "y", "a", "m", "l">>))

\* fs::create_dir_all on a folder that is not there
create_dir_all(folder) == IF folder.exists THEN folder ELSE Folder(TRUE, {}, None)

\* A write that is not guarded by the test that the file is absent.
write_default_over(folder) == [folder EXCEPT !.shortcuts = Some(DEFAULT_SHORTCUTS)]

\* init.rs:31-35, 47-53: the default .shortcuts.yaml is written where the
\* folder has none.
write_default(folder) ==
    IF ~exists(folder, shortcuts_file)
    THEN [folder EXCEPT !.shortcuts = Some(DEFAULT_SHORTCUTS)]
    ELSE folder

\* init.rs:15-62: the folders init_zirv_with leaves and what it returns.
init_zirv_with(disk, confirm) ==
    IF IsNone(home_dir)
    THEN [files |-> disk,
          result |-> Err("Could not determine home directory")]
    ELSE LET home == write_default(create_dir_all(disk.home))
         IN IF disk.local.exists
            THEN [files |-> Disk(disk.local, home), result |-> Ok(None)]
            ELSE IF ~confirm.ok
            THEN [files |-> Disk(disk.local, home), result |-> confirm]
            ELSE IF confirm.val
            THEN [files |-> Disk(write_default(create_dir_all(disk.local)),
                                 home),
                  result |-> Ok(None)]
            ELSE [files |-> Disk(disk.local, home), result |-> Ok(None)]

\* What the confirmation function returns: yes, no, or the error of a prompt
\* that could not be shown (init.rs:66-72).
Answers == { Ok(TRUE), Ok(FALSE), Err("dialoguer") }

\* The runs of init on the same directories.
MaxRuns == 2

InitEnvs ==
    { EmptyMap, insert(EmptyMap, HOME, UserHome),
      insert(EmptyMap, USERPROFILE, UserHome) }

ZirvInit ==
    /\ \E local \in Folders, home \in Folders : files = Disk(local, home)
    /\ confirm_fn \in Answers
    /\ env \in InitEnvs
    /\ base_name = <<"i", "n", "i", "t">>
    /\ ui = NoUi
    /\ script = Script(<<"n">>, None, None, <<>>)
    /\ cli_params = <<>>
    /\ os \in Platforms \ {"windows"}
    /\ pc = "init"
    /\ context = EmptyMap
    /\ idx = 1
    /\ handles = <<>>
    /\ joined = 0
    /\ result = None
    /\ task = [f \in 0..0 |-> NoTask]
    /\ ex = [f \in 0..0 |-> Idle]
    /\ hist = [f \in 0..0 |-> <<>>]

\* One call of init_zirv_with(confirm_fn).
InitZirv ==
    /\ pc = "init"
    /\ idx <= MaxRuns
    /\ LET done == init_zirv_with(files, confirm_fn)
       IN /\ files' = done.files
          /\ result' = Some(done.result)
          /\ hist' = [hist EXCEPT ![0] =
                        Append(@, [before |-> files, after |-> done.files])]
    /\ idx' = idx + 1
    /\ UNCHANGED <<script, cli_params, env, os, base_name, confirm_fn, ui, pc,
                   context, handles, joined, task, ex>>

ZirvNext == InitZirv

ZirvSpec == ZirvInit /\ [][ZirvNext]_vars

\* A home directory is named by the environment.
HomeKnown == HOME \in DOMAIN env \/ USERPROFILE \in DOMAIN env

\* The call left the folder's scripts and the shortcuts file it had alone.
Kept(before, after) ==
    /\ before.exists => after.exists
    /\ after.scripts = before.scripts
    /\ IsSome(before.shortcuts) => after.shortcuts = before.shortcuts

-----------------------------------------------------------------------------
(* Templates *)

\* The step's own command is launched, or its directory change made.
IsLaunch(e) == e.fb = 0 /\ e.ev \in {"spawn", "cd"}

\* C29: no step of a run changes the script; the command a flow launches for
\* a step is the step's template, as the script holds it, with the
\* substitution made against the flow's context as it stands then.
C29_TemplatesAreNeverModified ==
    [][/\ script' = script
       /\ \A f \in Flows :
            \A i \in DOMAIN NewEvents(f) :
                LET e == NewEvents(f)[i]
                IN IsLaunch(e) =>
                     e.text \in substitute_params(StepAt(e.grp, e.mem).command,
                                                  Ctx(f))]_vars

\* A run has ended in a failure after a Single step and a member of a group
\* were launched on commands that differ from their templates.
C29_Witness ==
    /\ pc = "done"
    /\ ~Unwrap(result).ok
    /\ \E f \in Flows \ {0} :
         \E i \in DOMAIN hist[f] :
             /\ IsLaunch(hist[f][i])
             /\ hist[f][i].text # StepAt(hist[f][i].grp, hist[f][i].mem).command
    /\ \E i \in DOMAIN hist[0] :
         /\ IsLaunch(hist[0][i])
         /\ hist[0][i].text # StepAt(hist[0][i].grp, hist[0][i].mem).command

-----------------------------------------------------------------------------
(* The snapshot a unit works on *)

\* The main flow spawns the task of the group it is at.
Dispatching == handles' # handles

\* C30: the context of a unit is the main context as it was when the group
\* was dispatched; from then on it changes by the unit's own steps only, and
\* it is what the unit's steps are substituted against and take their
\* working directory from, whatever the main flow binds in the meantime.
C30_UnitContextIsASnapshotAtDispatch ==
    [][/\ Dispatching => task'[idx].ctx = context
       /\ \A g \in Dispatched :
            /\ ~TaskStep(g) => task'[g].ctx = task[g].ctx
            /\ \A i \in DOMAIN NewEvents(g) :
                 LET e == NewEvents(g)[i]
                 IN /\ IsLaunch(e) =>
                         e.text \in substitute_params(
                                        StepAt(e.grp, e.mem).command,
                                        task[g].ctx)
                    /\ (e.ev = "spawn" /\ e.fb = 0) =>
                         e.cwd = get(task[g].ctx, CWD)]_vars

\* A unit got a parameter bound before its dispatch, and has run through
\* without the capture the main flow made after it: its step on a template
\* that names the capture was launched on the template as it is.
C30_Witness ==
    \E g \in Dispatched :
        /\ Completed(g)
        /\ A \in DOMAIN task[g].ctx
        /\ O \in DOMAIN context
        /\ O \notin DOMAIN task[g].ctx
        /\ \E i \in DOMAIN hist[g] :
             /\ IsLaunch(hist[g][i])
             /\ Mentions(StepAt(g, hist[g][i].mem).command, O)
             /\ hist[g][i].text = StepAt(g, hist[g][i].mem).command

-----------------------------------------------------------------------------
(* Failures and the context *)

\* The step's own process did not exit with status 0, or its directory
\* could not be resolved.
IsFailure(e) == e.fb = 0 /\ ~e.ok /\ e.ev \in {"exit", "cd"}

\* C31: a step of a flow in which the step's own process fails (non-zero
\* exit, or no process at all) or a directory change cannot resolve its
\* target leaves the flow's context as it was: nothing is stored under the
\* capture name, and cwd keeps its value or stays absent.
C31_FailingStepLeavesTheContext ==
    [][\A f \in Flows :
         (\E i \in DOMAIN NewEvents(f) : IsFailure(NewEvents(f)[i]))
         => Ctx(f)' = Ctx(f)]_vars

\* A step with a capture name has failed and its flow's context has nothing
\* under the name.
C31_Witness ==
    \E p \in Places :
        /\ IsSome(StepAt(p[1], p[2]).capture)
        /\ ProcessFailed(p[1], p[2])
        /\ Unwrap(StepAt(p[1], p[2]).capture) \notin DOMAIN Ctx(FlowOf(p[1], p[2]))

-----------------------------------------------------------------------------
(* Recovery only *)

\* The launches of the step's own command among the events of a step.
OwnSpawns(g, m) ==
    SelectSeq(EventsOf(g, m), LAMBDA e : e.ev = "spawn" /\ e.fb = 0)

\* C32: in one execution of a step the step's own command is handed to a
\* process at most once, and never after a fallback step of its chain has
\* been launched.
C32_OwnCommandIsLaunchedAtMostOnce ==
    \A p \in Places :
        LET events == EventsOf(p[1], p[2])
        IN /\ Len(OwnSpawns(p[1], p[2])) <= 1
           /\ \A i \in DOMAIN events, j \in DOMAIN events :
                (i < j /\ events[i].ev = "spawn" /\ events[i].fb > 0)
                => ~(events[j].ev = "spawn" /\ events[j].fb = 0)

\* Execute has returned for a step whose process failed and whose whole
\* chain ran with success.
C32_Witness ==
    \E p \in Places :
        /\ ProcessFailed(p[1], p[2])
        /\ Len(fallback_of(StepAt(p[1], p[2]))) = 2
        /\ FallbackSpawns(p[1], p[2]) = <<1, 2>>
        /\ ~FallbackFailed(p[1], p[2])
        /\ Returned(p[1], p[2])
        /\ Len(OwnSpawns(p[1], p[2])) = 1

-----------------------------------------------------------------------------
(* The delay *)

\* The step declares a delay.
HasDelay(step) ==
    IsSome(step.options) /\ IsSome(Unwrap(step.options).delay_ms)

\* The step's own process has exited with status 0.
IsSuccess(e) == e.ev = "exit" /\ e.fb = 0 /\ e.ok

\* C33: when the process of a step that declares a delay exits with status
\* 0, its flow pauses, once for that step, and the pause is over before
\* execute returns, hence before the flow starts on its next step.
C33_DelayFollowsASuccessfulStep ==
    \A f \in Flows :
        LET h == hist[f]
        IN \A i \in DOMAIN h :
             (IsSuccess(h[i]) /\ HasDelay(StepAt(h[i].grp, h[i].mem))) =>
                 /\ Len(h) > i
                 /\ h[i + 1].ev = "sleep"
                 /\ Len(h) > i + 1 => h[i + 2].ev = "wake"
                 /\ Len(h) > i + 2 => h[i + 3].ev = "return"
                 /\ Cardinality({ j \in DOMAIN h :
                                    /\ h[j].ev = "sleep"
                                    /\ h[j].grp = h[i].grp
                                    /\ h[j].mem = h[i].mem }) = 1
                 /\ \A j \in DOMAIN h :
                      (IsStart(h[j]) /\ j > i) =>
                          \E k \in (i + 1)..(j - 1) : h[k].ev = "wake"

\* The task of a group has paused after a member with a delay, has been
\* returned from and has then started on the next member.
C33_Witness ==
    \E f \in Flows \ {0} :
        \E i \in DOMAIN hist[f] :
            /\ IsSuccess(hist[f][i])
            /\ HasDelay(StepAt(hist[f][i].grp, hist[f][i].mem))
            /\ Len(hist[f]) > i + 3
            /\ hist[f][i + 2].ev = "wake"
            /\ hist[f][i + 3].ev = "return"
            /\ IsStart(hist[f][i + 4])
            /\ hist[f][i + 4].mem = hist[f][i].mem + 1

-----------------------------------------------------------------------------
(* Failures inside a unit *)

\* The command the process of member m of group g was launched on.
LaunchedAs(g, m) == OwnSpawns(g, m)[1].text

\* C34: in the task of a group, a member that execute returns a failure for
\* ends the task: no later member has run, and the task's outcome is that
\* failure, as it is; a member that failed and that execute returned Ok for
\* (the failure is tolerated) is followed by the next member, or by the
\* end of the task with Ok when it is the last.
C34_UntoleratedFailureEndsTheUnit ==
    \A g \in Dispatched :
        \A m \in 1..Len(script.commands[g].cmds) :
            /\ ReturnedErr(g, m) =>
                 /\ UnitFailed(g)
                 /\ task[g].i = m
                 /\ \A n \in (m + 1)..Len(script.commands[g].cmds) :
                      EventsOf(g, n) = <<>>
                 /\ UnitError(g).kind \in
                      {"CommandFailed", "FallbackFailed", "ChangeDirectory"}
                 /\ UnitError(g).kind \in {"CommandFailed", "FallbackFailed"}
                      => UnitError(g).command = LaunchedAs(g, m)
            /\ (StepFailed(g, m) /\ ReturnedOk(g, m)) =>
                 IF m < Len(script.commands[g].cmds)
                 THEN task[g].i > m
                 ELSE Completed(g) /\ ~UnitFailed(g)

\* One unit has ended with the failure of its first member, its second
\* member not run; in another the failure of the first member was
\* tolerated and the second member was launched.
C34_Witness ==
    \E g \in Dispatched, h \in Dispatched :
        /\ ReturnedErr(g, 1)
        /\ Len(script.commands[g].cmds) = 2
        /\ EventsOf(g, 2) = <<>>
        /\ ProcessFailed(h, 1)
        /\ ReturnedOk(h, 1)
        /\ Len(OwnSpawns(h, 2)) = 1

-----------------------------------------------------------------------------
(* Which failure run returns *)

\* The failures Command::execute returns.
StepErrors == {"CommandFailed", "FallbackFailed", "ChangeDirectory"}

\* C35: once a Single step has been returned from with a failure, run has
\* returned that step's failure under the script's name, whatever the units
\* dispatched before it have come to; and when run returns, after
\* pre-flight, a failure that is not a Single step's, every Single step has
\* been returned from with Ok and every group has been dispatched.
C35_SingleStepFailureTakesPrecedence ==
    /\ \A g \in SingleGroups :
         ReturnedErr(g, 0) =>
             /\ Failed
             /\ Unwrap(result).err.kind = "Script"
             /\ Unwrap(result).err.name = script.name
             /\ Unwrap(result).err.inner.kind \in StepErrors
             /\ Unwrap(result).err.inner.kind \in {"CommandFailed",
                                                   "FallbackFailed"}
                  => Unwrap(result).err.inner.command = LaunchedAs(g, 0)
             /\ idx = g
    /\ (Failed /\ PreflightPassed /\ Unwrap(result).err.kind # "Script") =>
         /\ \A g \in SingleGroups : ReturnedOk(g, 0)
         /\ Dispatched = ConcurrentGroups
         /\ \E g \in Dispatched :
              UnitFailed(g) /\ Unwrap(result).err = UnitError(g)

\* Run has returned the failure of a Single step while a unit dispatched
\* before that step had already ended with a failure of its own.
C35_Witness ==
    \E g \in Dispatched, s \in SingleGroups :
        /\ g < s
        /\ UnitFailed(g)
        /\ ReturnedErr(s, 0)
        /\ Failed
        /\ Unwrap(result).err.kind = "Script"
        /\ Unwrap(result).err.inner # UnitError(g)

-----------------------------------------------------------------------------
(* Termination *)

\* Run has returned and no task is left with steps to take.
AllAtRest ==
    /\ pc = "done"
    /\ IsSome(result)
    /\ \A f \in Flows : task[f].status # "running"

\* C36: when every flow that can take a step takes one, run returns a
\* result, Ok or a failure, and every task comes to its end: no flow is
\* left waiting for another.
C36_RunTerminates == <>[]AllAtRest

\* Run has returned Ok after it waited for two units that had both run
\* through.
C36_Witness ==
    /\ Succeeded
    /\ Len(handles) = 2
    /\ joined = 2
    /\ \A g \in Dispatched :
         Completed(g) /\ Len(script.commands[g].cmds) > 0

-----------------------------------------------------------------------------
(* The order the keys of the context are visited in *)

\* C37: the command substitute_params leaves is the only one it can leave
\* for the template and the context: no other order of the context's keys
\* gives another string.
C37_SubstitutionIsDeterministic ==
    pc = "substituted" => substitute_params(Template, context) = {Output}

-----------------------------------------------------------------------------
(* The App of the terminal UI on its own *)

MaxLogs == 3

MaxHeight == 4

\* An App as App::new leaves it (ui.rs:117), in a terminal, with no engine
\* at work.
AppInit ==
    /\ script = Script(<<"n">>, None, None, <<>>)
    /\ cli_params = <<>>
    /\ env = EmptyMap
    /\ os = "linux"
    /\ base_name = <<"n">>
    /\ files = Disk(NoFolder, NoFolder)
    /\ confirm_fn = Ok(FALSE)
    /\ ui = [is_terminal |-> TRUE, stage |-> "loop", app |-> App,
             ret |-> None]
    /\ pc = "app"
    /\ context = EmptyMap
    /\ idx = 1
    /\ handles = <<>>
    /\ joined = 0
    /\ result = None
    /\ task = [f \in {0} |-> NoTask]
    /\ ex = [f \in {0} |-> Idle]
    /\ hist = [f \in {0} |-> <<>>]

\* The methods of App and draw_ui, called in any order: a log line arrives
\* (ui.rs:142-144), a key is pressed (ui.rs:131-134), the panel is drawn
\* again at some height (ui.rs:122).
AppNext ==
    /\ pc = "app"
    /\ \/ /\ Len(ui.app.logs) < MaxLogs
          /\ \E is_error \in BOOLEAN :
               ui' = [ui EXCEPT !.app = push_log(@, <<"l">>, is_error)]
       \/ ui' = [ui EXCEPT !.app = scroll_up(@)]
       \/ ui' = [ui EXCEPT !.app = scroll_down(@)]
       \/ ui' = [ui EXCEPT !.app = scroll_page_up(@)]
       \/ ui' = [ui EXCEPT !.app = scroll_page_down(@)]
       \/ \E height \in 0..MaxHeight :
            ui' = [ui EXCEPT !.app = draw_ui(@, height)]
    /\ UNCHANGED <<script, cli_params, env, os, base_name, files, confirm_fn,
                   pc, context, idx, handles, joined, result, task, ex, hist>>

AppSpec == AppInit /\ [][AppNext]_vars

\* C39: a call of scroll_page_down never leaves a scroll offset below the
\* one it found.
C39_PageDownNeverMovesBack ==
    [][ui'.app = scroll_page_down(ui.app)
         => ui'.app.scroll >= ui.app.scroll]_vars

-----------------------------------------------------------------------------
(* ui::run around the engine (ui.rs:96-169) *)

\* ui::run is called on a script, on a standard output that is a terminal
\* or is not.
UiInit ==
    /\ \E c \in Cases, commands \in SeqsUpTo(Groups, 1) :
         /\ script = Script(<<"n">>, c.params, c.secrets, commands)
         /\ cli_params = c.values
         /\ env = c.environment
    /\ os = "linux"
    /\ base_name = <<"n">>
    /\ files = Disk(NoFolder, NoFolder)
    /\ confirm_fn = Ok(FALSE)
    /\ \E is_terminal \in BOOLEAN :
         ui = [is_terminal |-> is_terminal, stage |-> "start", app |-> App,
               ret |-> None]
    /\ pc = "build"
    /\ context = EmptyMap
    /\ idx = 1
    /\ handles = <<>>
    /\ joined = 0
    /\ result = None
    /\ task = [f \in 0..Len(script.commands) |-> NoTask]
    /\ ex = [f \in 0..Len(script.commands) |-> Idle]
    /\ hist = [f \in 0..Len(script.commands) |-> <<>>]

\* The steps of ui::run and of the engine under it.  A call on the terminal
\* (`?` at ui.rs:104-108, 122, 164-167) succeeds or fails with an I/O error.
UiNext ==
    \* ui.rs:97, 104-117: the plain mode goes on in-line; the terminal mode
    \* sets the terminal up and spawns the engine.
    \/ /\ ui.stage = "start"
       /\ IF ~ui.is_terminal
          THEN ui' = [ui EXCEPT !.stage = "plain"]
          ELSE \E io_ok \in BOOLEAN :
                 ui' = IF io_ok
                       THEN [ui EXCEPT !.stage = "loop"]
                       ELSE [ui EXCEPT !.stage = "returned",
                                       !.ret = Some(Err("io"))]
       /\ UNCHANGED <<script, cli_params, env, os, base_name, files,
                      confirm_fn, pc, context, idx, handles, joined, result,
                      task, ex, hist>>
    \* ui.rs:99, 114: script_runner::execute, in-line or in its task.
    \/ /\ ui.stage \in {"plain", "loop"}
       /\ \/ BuildContext
          \/ Dispatch
          \/ Join
          \/ Finish
          \/ \E f \in Flows : ExecuteStart(f)
          \/ \E f \in Flows : InvokeDone(f)
          \/ \E f \in Flows : FallbackDone(f)
          \/ \E f \in Flows : SleepDone(f)
    \* ui.rs:99-101: the plain mode returns what execute returned.
    \/ /\ ui.stage = "plain"
       /\ pc = "done"
       /\ ui' = [ui EXCEPT !.stage = "returned", !.ret = result]
       /\ UNCHANGED <<script, cli_params, env, os, base_name, files,
                      confirm_fn, pc, context, idx, handles, joined, result,
                      task, ex, hist>>
    \* ui.rs:121-168: one turn of the event loop: the draw, one event (a
    \* tick, a key, Ctrl-C; nothing is ever sent on the channel), the test of
    \* should_quit and, past the loop, the return of Ok(()).  What the task
    \* of the engine returned is dropped at ui.rs:114.
    \/ /\ ui.stage = "loop"
       /\ \E height \in 0..MaxHeight, io_ok \in BOOLEAN,
             event \in {"tick", "q", "ctrl-c", "Up", "Down", "PageUp",
                        "PageDown", "End", "other", "SIGINT"} :
            LET drawn == draw_ui(ui.app, height)
                app == CASE event \in {"q", "ctrl-c", "SIGINT"} ->
                              [drawn EXCEPT !.should_quit = TRUE]
                         [] event = "Up" -> scroll_up(drawn)
                         [] event = "Down" -> scroll_down(drawn)
                         [] event = "PageUp" -> scroll_page_up(drawn)
                         [] event = "PageDown" -> scroll_page_down(drawn)
                         [] event = "End" -> [drawn EXCEPT !.auto_scroll = TRUE]
                         [] OTHER -> drawn
            IN ui' = IF ~io_ok
                     THEN [ui EXCEPT !.stage = "returned",
                                     !.ret = Some(Err("io"))]
                     ELSE IF app.should_quit
                     THEN [ui EXCEPT !.stage = "returned", !.app = app,
                                     !.ret = Some(Ok(None))]
                     ELSE [ui EXCEPT !.app = app]
       /\ UNCHANGED <<script, cli_params, env, os, base_name, files,
                      confirm_fn, pc, context, idx, handles, joined, result,
                      task, ex, hist>>

UiSpec == UiInit /\ [][UiNext]_vars

\* C38: when ui::run has returned and the engine had returned a failure,
\* ui::run returned a failure, in the terminal mode as in the plain mode.
C38_UiReportsTheEngineFailure ==
    (ui.stage = "returned" /\ Failed) => ~Unwrap(ui.ret).ok

=============================================================================
